---- MODULE Spec2Model ----
(***************************************************************************)
(* webdav-xml: conversions between the typed WebDAV elements of RFC 4918   *)
(* and the generic Document Value tree.  Every conversion is a pure        *)
(* function; it is modelled as an operator, and the state machine below    *)
(* applies one conversion (or an insertion followed by the extraction of   *)
(* the value it produced) to an input drawn in Init.                       *)
(*                                                                         *)
(* Text is a sequence of one-character strings, so that prefix stripping,  *)
(* number parsing and number formatting are computed and not assumed.      *)
(* An Option is a sequence of length at most one.                          *)
(*                                                                         *)
(* Four specifications share the variables; each leaves the others' idle:  *)
(*   Spec         one conversion of one element type                       *)
(*   SpecMap      an Owner built by with, with_name and insert, and read   *)
(*   SpecXml      from_xml and into_xml on documents of markup tokens      *)
(*   SpecThreads  conversions called by several threads at once            *)
(***************************************************************************)
EXTENDS Integers, Sequences, FiniteSets, TLC

\* ------------------------------------------------------------------ bounds

\* Longest suffix drawn after "Second-" from SuffixAlphabet.
MaxSuffixLen == 2
\* Most whitespace characters put on each side of a depth text.
MaxPad == 1
\* Most entries of an owner / prop map.
MaxProps == 1

\* ---------------------------------------------------------- Document Value

DAV_NAMESPACE == "DAV:"
DAV_PREFIX == "d"

Empty == [tag |-> "empty"]
Text(t) == [tag |-> "text", text |-> t]
Map(m) == [tag |-> "map", map |-> m]
List(l) == [tag |-> "list", list |-> l]

\* The name of a Value's variant, as the error messages give it.
VariantName(value) == value.tag

\* ------------------------------------------------------------------ results

Ok(v) == [tag |-> "Ok", val |-> v]
Err(e) == [tag |-> "Err", err |-> e]
\* A conversion that does not return: the thread panics (todo!()).
Panic == [tag |-> "Panic"]

IsOk(r) == r.tag = "Ok"
IsErr(r) == r.tag = "Err"
IsPanic(r) == r.tag = "Panic"

MissingElement(name) == [kind |-> "MissingElement", name |-> name]
ConflictingElements(names) == [kind |-> "ConflictingElements", names |-> names]
InvalidValueType(expected, got) ==
    [kind |-> "InvalidValueType", expected |-> expected, got |-> got]
Other(msg) == [kind |-> "Other", msg |-> msg]

None == <<>>
Some(x) == <<x>>
IsSome(o) == o # <<>>

\* ------------------------------------------------------------ Qualified Name

\* Element::{NAMESPACE, LOCAL_NAME}; every element of this vocabulary is in DAV:.
ElementName(local) == [namespace |-> DAV_NAMESPACE, local_name |-> local]

\* ----------------------------------------------------------------- Value Map
\* An ordered sequence of entries [key, val], keys pairwise distinct.

ValueMap_new == <<>>

Entry(name, value) == [key |-> ElementName(name), val |-> value]

ValueMap_contains(map, name) ==
    \E i \in 1..Len(map) : map[i].key = ElementName(name)

ValueMap_index(map, name) ==
    CHOOSE i \in 1..Len(map) : map[i].key = ElementName(name)

\* insert::<E>(value): replace the value under E's name, or append a new entry.
ValueMap_insert(map, name, value) ==
    IF ValueMap_contains(map, name)
    THEN [map EXCEPT ![ValueMap_index(map, name)] = Entry(name, value)]
    ELSE Append(map, Entry(name, value))

\* The value stored under a name that the map contains.
ValueMap_value(map, name) == map[ValueMap_index(map, name)].val

\* get::<E>() is the lookup of E's name followed by E::try_from on the stored
\* value; each element type E has its instance get_E below, after E::try_from.

\* to_map(): the map of a Map value, InvalidValueType otherwise.
Value_to_map(value) ==
    IF value.tag = "map"
    THEN Ok(value.map)
    ELSE Err(InvalidValueType("map", VariantName(value)))

\* to_text(): the text of a Text value, InvalidValueType otherwise.
Value_to_text(value) ==
    IF value.tag = "text"
    THEN Ok(value.text)
    ELSE Err(InvalidValueType("text", VariantName(value)))

\* The key sequence of a map, by local name.
Keys(map) == [i \in 1..Len(map) |-> map[i].key.local_name]

\* --------------------------------------------------------------------- text

Digits == <<"0", "1", "2", "3", "4", "5", "6", "7", "8", "9">>
IsDigit(c) == \E d \in 1..Len(Digits) : Digits[d] = c
DigitVal(c) == (CHOOSE d \in 1..Len(Digits) : Digits[d] = c) - 1
DigitChar(d) == Digits[d + 1]

TXT_0 == <<"0">>
TXT_1 == <<"1">>
TXT_infinity == <<"i", "n", "f", "i", "n", "i", "t", "y">>
TXT_Infinite == <<"I", "n", "f", "i", "n", "i", "t", "e">>
TXT_SecondDash == <<"S", "e", "c", "o", "n", "d", "-">>

\* str::strip_prefix: the rest of the text after the prefix, None without it.
strip_prefix(text, prefix) ==
    IF Len(text) >= Len(prefix) /\ SubSeq(text, 1, Len(prefix)) = prefix
    THEN Some(SubSeq(text, Len(prefix) + 1, Len(text)))
    ELSE None

\* ---------------------------------------------------------------------- u32
\* A 32-bit unsigned integer as two 16-bit limbs, so that the whole range
\* 0 .. 4294967295 and its overflow are exact.

LIMB == 2 ^ 16

U32(hi, lo) == [hi |-> hi, lo |-> lo]
U32_of(n) == U32(n \div LIMB, n % LIMB)
U32_ZERO == U32(0, 0)
U32_MAX == U32(LIMB - 1, LIMB - 1)

\* checked_mul(10) then checked_add(d): None on overflow of 32 bits.
U32_push_digit(n, d) ==
    LET lo == n.lo * 10 + d
        hi == n.hi * 10 + (lo \div LIMB)
    IN  IF hi >= LIMB THEN None ELSE Some(U32(hi, lo % LIMB))

RECURSIVE parse_digits(_, _)
parse_digits(acc, s) ==
    IF s = <<>> THEN Some(acc)
    ELSE IF ~IsDigit(Head(s)) THEN None
    ELSE LET next == U32_push_digit(acc, DigitVal(Head(s)))
         IN  IF next = None THEN None ELSE parse_digits(next[1], Tail(s))

\* str::parse::<u32>(): an optional leading "+", then one or more decimal
\* digits whose value fits 32 bits; anything else is an error (None).
parse_u32(s) ==
    IF s = <<>> THEN None
    ELSE IF s = <<"+">> \/ s = <<"-">> THEN None
    ELSE IF Head(s) = "+" THEN parse_digits(U32_ZERO, Tail(s))
    ELSE parse_digits(U32_ZERO, s)

\* n / 10 and n % 10 by long division over the limbs.
U32_div10(n) ==
    LET r == (n.hi % 10) * LIMB + n.lo
    IN  U32(n.hi \div 10, r \div 10)
U32_mod10(n) == ((n.hi % 10) * LIMB + n.lo) % 10

RECURSIVE U32_digits(_)
U32_digits(n) ==
    IF n = U32_ZERO THEN <<>>
    ELSE Append(U32_digits(U32_div10(n)), DigitChar(U32_mod10(n)))

\* Display for u32 ("{}"): the decimal digits, "0" for zero.
U32_to_string(n) == IF n = U32_ZERO THEN <<"0">> ELSE U32_digits(n)

\* ------------------------------------------------------------------- depth

Depth_Zero == [variant |-> "Zero"]
Depth_One == [variant |-> "One"]
Depth_Infinity == [variant |-> "Infinity"]

MSG_depth == "depth element must have value of 0, 1, or infinity"

\* A slip that would accept the capitalised literal too.
Depth_try_from_caseless(value) ==
    IF value.tag = "text"
    THEN CASE value.text = TXT_0 -> Ok(Depth_Zero)
           [] value.text = TXT_1 -> Ok(Depth_One)
           [] value.text = TXT_infinity \/ value.text = <<"I">> \o Tail(TXT_infinity)
                -> Ok(Depth_Infinity)
           [] OTHER -> Err(Other(MSG_depth))
    ELSE Err(InvalidValueType("text", VariantName(value)))

WhiteSpace == {" ", "\t", "\n"}

RECURSIVE trim_start(_)
trim_start(t) ==
    IF t # <<>> /\ Head(t) \in WhiteSpace THEN trim_start(Tail(t)) ELSE t

RECURSIVE trim_end(_)
trim_end(t) ==
    IF t # <<>> /\ t[Len(t)] \in WhiteSpace
    THEN trim_end(SubSeq(t, 1, Len(t) - 1)) ELSE t

\* str::trim: the text without its leading and trailing whitespace.
trim(t) == trim_end(trim_start(t))

\* A variant that would trim the text before matching it.
Depth_try_from_trimming(value) ==
    IF value.tag = "text"
    THEN CASE trim(value.text) = TXT_0 -> Ok(Depth_Zero)
           [] trim(value.text) = TXT_1 -> Ok(Depth_One)
           [] trim(value.text) = TXT_infinity -> Ok(Depth_Infinity)
           [] OTHER -> Err(Other(MSG_depth))
    ELSE Err(InvalidValueType("text", VariantName(value)))

\* Depth::try_from(&Value)
Depth_try_from(value) ==
    IF value.tag = "text"
    THEN CASE value.text = TXT_0 -> Ok(Depth_Zero)
           [] value.text = TXT_1 -> Ok(Depth_One)
           [] value.text = TXT_infinity -> Ok(Depth_Infinity)
           [] OTHER -> Err(Other(MSG_depth))
    ELSE Err(InvalidValueType("text", VariantName(value)))

\* map.get::<Depth>()
get_Depth(map) ==
    IF ValueMap_contains(map, "depth")
    THEN Some(Depth_try_from(ValueMap_value(map, "depth")))
    ELSE None

\* From<Depth> for Value
Depth_into(depth) ==
    Text(CASE depth = Depth_Zero -> TXT_0
           [] depth = Depth_One -> TXT_1
           [] depth = Depth_Infinity -> TXT_infinity)

\* ----------------------------------------------------------------- timeout

Timeout_Infinite == [variant |-> "Infinite"]
Timeout_Seconds(n) == [variant |-> "Seconds", seconds |-> n]

MSG_timeout_second == "Timeout element has invalid Second value"
MSG_timeout_form == "Timeout element must be 'Infinite' or 'Second-<number>'"

\* A slip that would turn an unparsable suffix into zero seconds.
Timeout_try_from_lenient(value) ==
    LET text == Value_to_text(value)
    IN  IF IsErr(text) THEN text
        ELSE IF text.val = TXT_Infinite THEN Ok(Timeout_Infinite)
        ELSE LET stripped == strip_prefix(text.val, TXT_SecondDash)
             IN  IF IsSome(stripped)
                 THEN LET seconds == parse_u32(stripped[1])
                      IN  IF IsSome(seconds)
                          THEN Ok(Timeout_Seconds(seconds[1]))
                          ELSE Ok(Timeout_Seconds(U32_ZERO))
                 ELSE Err(Other(MSG_timeout_form))

\* Timeout::try_from(&Value)
Timeout_try_from(value) ==
    LET text == Value_to_text(value)
    IN  IF IsErr(text) THEN text
        ELSE IF text.val = TXT_Infinite THEN Ok(Timeout_Infinite)
        ELSE LET stripped == strip_prefix(text.val, TXT_SecondDash)
             IN  IF IsSome(stripped)
                 THEN LET seconds == parse_u32(stripped[1])
                      IN  IF IsSome(seconds)
                          THEN Ok(Timeout_Seconds(seconds[1]))
                          ELSE Err(Other(MSG_timeout_second))
                 ELSE Err(Other(MSG_timeout_form))

\* From<Timeout> for Value
Timeout_into(timeout) ==
    Text(IF timeout = Timeout_Infinite
         THEN TXT_Infinite
         ELSE TXT_SecondDash \o U32_to_string(timeout.seconds))

\* -------------------------------------------------------- marker elements

Exclusive == [unit |-> "Exclusive"]
Shared == [unit |-> "Shared"]
Write == [unit |-> "Write"]
Propname == [unit |-> "Propname"]
Allprop == [unit |-> "Allprop"]

\* Exclusive::try_from(&Value), were the value required to be Empty.
Exclusive_try_from_checking(value) ==
    IF value = Empty THEN Ok(Exclusive)
    ELSE Err(InvalidValueType("empty", VariantName(value)))

\* Exclusive::try_from(&Value): succeeds whatever the value is.
Exclusive_try_from(value) == Ok(Exclusive)

\* map.get::<Exclusive>()
get_Exclusive(map) ==
    IF ValueMap_contains(map, "exclusive")
    THEN Some(Exclusive_try_from(ValueMap_value(map, "exclusive")))
    ELSE None

\* From<Exclusive> for Value
Exclusive_into(unit) == Empty

\* Shared::try_from(&Value): succeeds whatever the value is.
Shared_try_from(value) == Ok(Shared)

\* map.get::<Shared>()
get_Shared(map) ==
    IF ValueMap_contains(map, "shared")
    THEN Some(Shared_try_from(ValueMap_value(map, "shared")))
    ELSE None

\* From<Shared> for Value
Shared_into(unit) == Empty

\* Write::try_from(&Value): succeeds whatever the value is.
Write_try_from(value) == Ok(Write)

\* map.get::<Write>()
get_Write(map) ==
    IF ValueMap_contains(map, "write")
    THEN Some(Write_try_from(ValueMap_value(map, "write")))
    ELSE None

\* From<Write> for Value
Write_into(unit) == Empty

\* Propname::try_from(&Value): succeeds whatever the value is.
Propname_try_from(value) == Ok(Propname)

\* map.get::<Propname>()
get_Propname(map) ==
    IF ValueMap_contains(map, "propname")
    THEN Some(Propname_try_from(ValueMap_value(map, "propname")))
    ELSE None

\* From<Propname> for Value
Propname_into(unit) == Empty

\* Allprop::try_from(&Value): succeeds whatever the value is.
Allprop_try_from(value) == Ok(Allprop)

\* map.get::<Allprop>()
get_Allprop(map) ==
    IF ValueMap_contains(map, "allprop")
    THEN Some(Allprop_try_from(ValueMap_value(map, "allprop")))
    ELSE None

\* From<Allprop> for Value
Allprop_into(unit) == Empty

\* ---------------------------------------------------------------- lockscope

LockScope_Exclusive == [variant |-> "Exclusive"]
LockScope_Shared == [variant |-> "Shared"]

\* LockScope::try_from(&Value)
LockScope_try_from(value) ==
    LET map == Value_to_map(value)
    IN  IF IsErr(map) THEN map
        ELSE LET exclusive == get_Exclusive(map.val)
                 shared == get_Shared(map.val)
             IN  CASE IsSome(exclusive) /\ shared = None -> Ok(LockScope_Exclusive)
                   [] exclusive = None /\ IsSome(shared) -> Ok(LockScope_Shared)
                   [] OTHER -> Err(MissingElement("exclusive or shared"))

\* map.get::<LockScope>()
get_LockScope(map) ==
    IF ValueMap_contains(map, "lockscope")
    THEN Some(LockScope_try_from(ValueMap_value(map, "lockscope")))
    ELSE None

\* From<LockScope> for Value
LockScope_into(lock_scope) ==
    Map(IF lock_scope = LockScope_Exclusive
        THEN ValueMap_insert(ValueMap_new, "exclusive", Exclusive_into(Exclusive))
        ELSE ValueMap_insert(ValueMap_new, "shared", Shared_into(Shared)))

\* ----------------------------------------------------------------- locktype

LockType_Write(write) == [variant |-> "Write", write |-> write]

\* LockType::try_from(&Value)
LockType_try_from(value) ==
    LET map == Value_to_map(value)
    IN  IF IsErr(map) THEN map
        ELSE LET write == get_Write(map.val)
             IN  IF write = None THEN Err(MissingElement("write"))
                 ELSE IF IsErr(write[1]) THEN write[1]
                 ELSE Ok(LockType_Write(write[1].val))

\* map.get::<LockType>()
get_LockType(map) ==
    IF ValueMap_contains(map, "locktype")
    THEN Some(LockType_try_from(ValueMap_value(map, "locktype")))
    ELSE None

\* From<LockType> for Value
LockType_into(lock_type) ==
    Map(ValueMap_insert(ValueMap_new, "write", Write_into(lock_type.write)))

\* --------------------------------------------------------------------- href

Href(uri) == [uri |-> uri]

\* Href::try_from(&Value): the text of a Text value.
Href_try_from(value) ==
    LET text == Value_to_text(value)
    IN  IF IsErr(text) THEN text ELSE Ok(Href(text.val))

\* map.get::<Href>()
get_Href(map) ==
    IF ValueMap_contains(map, "href")
    THEN Some(Href_try_from(ValueMap_value(map, "href")))
    ELSE None

\* From<Href> for Value
Href_into(href) == Text(href.uri)

\* ------------------------------------------------------ lockroot, locktoken

LockRoot(href) == [href |-> href]
LockToken(href) == [href |-> href]

\* LockRoot::try_from(&Value)
LockRoot_try_from(value) ==
    LET map == Value_to_map(value)
    IN  IF IsErr(map) THEN map
        ELSE LET href == get_Href(map.val)
             IN  IF href = None THEN Err(MissingElement("href"))
                 ELSE IF IsErr(href[1]) THEN href[1]
                 ELSE Ok(LockRoot(href[1].val))

\* map.get::<LockRoot>()
get_LockRoot(map) ==
    IF ValueMap_contains(map, "lockroot")
    THEN Some(LockRoot_try_from(ValueMap_value(map, "lockroot")))
    ELSE None

\* From<LockRoot> for Value
LockRoot_into(lock_root) ==
    Map(ValueMap_insert(ValueMap_new, "href", Href_into(lock_root.href)))

\* LockToken::try_from(&Value)
LockToken_try_from(value) ==
    LET map == Value_to_map(value)
    IN  IF IsErr(map) THEN map
        ELSE LET href == get_Href(map.val)
             IN  IF href = None THEN Err(MissingElement("href"))
                 ELSE IF IsErr(href[1]) THEN href[1]
                 ELSE Ok(LockToken(href[1].val))

\* map.get::<LockToken>()
get_LockToken(map) ==
    IF ValueMap_contains(map, "locktoken")
    THEN Some(LockToken_try_from(ValueMap_value(map, "locktoken")))
    ELSE None

\* From<LockToken> for Value
LockToken_into(lock_token) ==
    Map(ValueMap_insert(ValueMap_new, "href", Href_into(lock_token.href)))

\* ------------------------------------------------------------- owner, prop

Owner(map) == [map |-> map]
Properties(map) == [map |-> map]

\* Owner::try_from that reads the Empty value as an owner without children.
Owner_try_from_empty(value) ==
    LET map == Value_to_map(value)
    IN  IF value.tag = "empty" THEN Ok(Owner(<<>>))
        ELSE IF IsErr(map) THEN map ELSE Ok(Owner(map.val))

\* Owner::try_from(&Value): value.to_map().cloned().map(Self)
Owner_try_from(value) ==
    LET map == Value_to_map(value)
    IN  IF IsErr(map) THEN map ELSE Ok(Owner(map.val))

\* map.get::<Owner>()
get_Owner(map) ==
    IF ValueMap_contains(map, "owner")
    THEN Some(Owner_try_from(ValueMap_value(map, "owner")))
    ELSE None

\* From<Owner> for Value
Owner_into(owner) == Map(owner.map)

\* Properties::try_from(&Value)
Properties_try_from(value) ==
    LET map == Value_to_map(value)
    IN  IF IsErr(map) THEN map ELSE Ok(Properties(map.val))

\* map.get::<Properties>()
get_Properties(map) ==
    IF ValueMap_contains(map, "prop")
    THEN Some(Properties_try_from(ValueMap_value(map, "prop")))
    ELSE None

\* From<Properties> for Value
Properties_into(props) == Map(props.map)

\* ---------------------------------------------------------------- lockentry

LockEntry(lock_scope, lock_type) ==
    [lock_scope |-> lock_scope, lock_type |-> lock_type]

\* LockEntry::try_from that denies a map with a child other than lockscope and
\* locktype.
LockEntry_try_from_strict(value) ==
    LET map == Value_to_map(value)
    IN  IF IsErr(map) THEN map
        ELSE IF \E i \in 1..Len(map.val) :
                    map.val[i].key \notin {ElementName("lockscope"),
                                           ElementName("locktype")}
        THEN Err(Other("lockentry element has an unknown child"))
        ELSE LET lock_scope == get_LockScope(map.val)
                 lock_type == get_LockType(map.val)
             IN  IF IsSome(lock_scope) /\ IsSome(lock_type)
                    /\ IsOk(lock_scope[1]) /\ IsOk(lock_type[1])
                 THEN Ok(LockEntry(lock_scope[1].val, lock_type[1].val))
                 ELSE IF IsSome(lock_scope) /\ IsErr(lock_scope[1]) THEN lock_scope[1]
                 ELSE IF IsSome(lock_type) /\ IsErr(lock_type[1]) THEN lock_type[1]
                 ELSE IF lock_scope = None THEN Err(MissingElement("lockscope"))
                 ELSE Err(MissingElement("locktype"))

\* LockEntry::try_from(&Value): the match arms in their order.
LockEntry_try_from(value) ==
    LET map == Value_to_map(value)
    IN  IF IsErr(map) THEN map
        ELSE LET lock_scope == get_LockScope(map.val)
                 lock_type == get_LockType(map.val)
             IN  IF IsSome(lock_scope) /\ IsSome(lock_type)
                    /\ IsOk(lock_scope[1]) /\ IsOk(lock_type[1])
                 THEN Ok(LockEntry(lock_scope[1].val, lock_type[1].val))
                 ELSE IF IsSome(lock_scope) /\ IsErr(lock_scope[1]) THEN lock_scope[1]
                 ELSE IF IsSome(lock_type) /\ IsErr(lock_type[1]) THEN lock_type[1]
                 ELSE IF lock_scope = None THEN Err(MissingElement("lockscope"))
                 ELSE Err(MissingElement("locktype"))

\* From<LockEntry> for Value
LockEntry_into(lock_entry) ==
    LET m1 == ValueMap_insert(ValueMap_new, "lockscope",
                              LockScope_into(lock_entry.lock_scope))
        m2 == ValueMap_insert(m1, "locktype", LockType_into(lock_entry.lock_type))
    IN  Map(m2)

\* ----------------------------------------------------------------- lockinfo

LockInfo(lock_scope, lock_type, owner) ==
    [lock_scope |-> lock_scope, lock_type |-> lock_type, owner |-> owner]

\* LockInfo::try_from(&Value), were an owner that fails taken as no owner
\* (map.get::<Owner>().and_then(Result::ok)).
LockInfo_try_from_lenient(value) ==
    LET map == Value_to_map(value)
    IN  IF IsErr(map) THEN map
        ELSE LET lock_scope == get_LockScope(map.val)
                 lock_type == get_LockType(map.val)
                 owner_opt == get_Owner(map.val)
             IN  IF IsSome(lock_scope) /\ IsSome(lock_type)
                    /\ IsOk(lock_scope[1]) /\ IsOk(lock_type[1])
                 THEN IF owner_opt = None \/ IsErr(owner_opt[1])
                      THEN Ok(LockInfo(lock_scope[1].val, lock_type[1].val, None))
                      ELSE Ok(LockInfo(lock_scope[1].val, lock_type[1].val,
                                       Some(owner_opt[1].val)))
                 ELSE IF IsSome(lock_scope) /\ IsErr(lock_scope[1]) THEN lock_scope[1]
                 ELSE IF IsSome(lock_type) /\ IsErr(lock_type[1]) THEN lock_type[1]
                 ELSE IF lock_scope = None THEN Err(MissingElement("lockscope"))
                 ELSE Err(MissingElement("locktype"))

\* LockInfo::try_from(&Value): the match arms in their order.
LockInfo_try_from(value) ==
    LET map == Value_to_map(value)
    IN  IF IsErr(map) THEN map
        ELSE LET lock_scope == get_LockScope(map.val)
                 lock_type == get_LockType(map.val)
                 owner_opt == get_Owner(map.val)
             IN  IF IsSome(lock_scope) /\ IsSome(lock_type)
                    /\ IsOk(lock_scope[1]) /\ IsOk(lock_type[1])
                 THEN IF owner_opt = None
                      THEN Ok(LockInfo(lock_scope[1].val, lock_type[1].val, None))
                      ELSE IF IsErr(owner_opt[1]) THEN owner_opt[1]
                      ELSE Ok(LockInfo(lock_scope[1].val, lock_type[1].val,
                                       Some(owner_opt[1].val)))
                 ELSE IF IsSome(lock_scope) /\ IsErr(lock_scope[1]) THEN lock_scope[1]
                 ELSE IF IsSome(lock_type) /\ IsErr(lock_type[1]) THEN lock_type[1]
                 ELSE IF lock_scope = None THEN Err(MissingElement("lockscope"))
                 ELSE Err(MissingElement("locktype"))

\* From<LockInfo> for Value
LockInfo_into(lock_info) ==
    LET m1 == ValueMap_insert(ValueMap_new, "lockscope",
                              LockScope_into(lock_info.lock_scope))
        m2 == ValueMap_insert(m1, "locktype", LockType_into(lock_info.lock_type))
        m3 == IF IsSome(lock_info.owner)
              THEN ValueMap_insert(m2, "owner", Owner_into(lock_info.owner[1]))
              ELSE m2
    IN  Map(m3)

\* --------------------------------------------------------------- activelock

ActiveLock(lock_scope, lock_type, depth, owner, lock_token, lock_root) ==
    [lock_scope |-> lock_scope, lock_type |-> lock_type, depth |-> depth,
     owner |-> owner, lock_token |-> lock_token, lock_root |-> lock_root]

\* A slip that would name the wrong child when depth is absent.
ActiveLock_try_from_misnaming(value) ==
    LET map == Value_to_map(value)
    IN  IF IsErr(map) THEN map
        ELSE
        LET lock_scope == get_LockScope(map.val)
            lock_type == get_LockType(map.val)
            depth == get_Depth(map.val)
            owner == get_Owner(map.val)
            lock_token == get_LockToken(map.val)
            lock_root == get_LockRoot(map.val)
        IN  IF lock_scope = None THEN Err(MissingElement("lockscope"))
            ELSE IF IsErr(lock_scope[1]) THEN lock_scope[1]
            ELSE IF lock_type = None THEN Err(MissingElement("locktype"))
            ELSE IF IsErr(lock_type[1]) THEN lock_type[1]
            ELSE IF depth = None THEN Err(MissingElement("locktype"))
            ELSE IF IsErr(depth[1]) THEN depth[1]
            ELSE IF IsSome(owner) /\ IsErr(owner[1]) THEN owner[1]
            ELSE IF IsSome(lock_token) /\ IsErr(lock_token[1]) THEN lock_token[1]
            ELSE IF lock_root = None THEN Err(MissingElement("lockroot"))
            ELSE IF IsErr(lock_root[1]) THEN lock_root[1]
            ELSE Ok(ActiveLock(lock_scope[1].val, lock_type[1].val, depth[1].val,
                               IF owner = None THEN None ELSE Some(owner[1].val),
                               IF lock_token = None THEN None
                               ELSE Some(lock_token[1].val),
                               lock_root[1].val))

\* ActiveLock::try_from(&Value): field by field, returning at the first failure.
ActiveLock_try_from(value) ==
    LET map == Value_to_map(value)
    IN  IF IsErr(map) THEN map
        ELSE
        LET lock_scope == get_LockScope(map.val)
            lock_type == get_LockType(map.val)
            depth == get_Depth(map.val)
            owner == get_Owner(map.val)
            lock_token == get_LockToken(map.val)
            lock_root == get_LockRoot(map.val)
        IN  IF lock_scope = None THEN Err(MissingElement("lockscope"))
            ELSE IF IsErr(lock_scope[1]) THEN lock_scope[1]
            ELSE IF lock_type = None THEN Err(MissingElement("locktype"))
            ELSE IF IsErr(lock_type[1]) THEN lock_type[1]
            ELSE IF depth = None THEN Err(MissingElement("depth"))
            ELSE IF IsErr(depth[1]) THEN depth[1]
            ELSE IF IsSome(owner) /\ IsErr(owner[1]) THEN owner[1]
            ELSE IF IsSome(lock_token) /\ IsErr(lock_token[1]) THEN lock_token[1]
            ELSE IF lock_root = None THEN Err(MissingElement("lockroot"))
            ELSE IF IsErr(lock_root[1]) THEN lock_root[1]
            ELSE Ok(ActiveLock(lock_scope[1].val, lock_type[1].val, depth[1].val,
                               IF owner = None THEN None ELSE Some(owner[1].val),
                               IF lock_token = None THEN None
                               ELSE Some(lock_token[1].val),
                               lock_root[1].val))

\* A slip that would insert an empty marker for an absent optional field.
ActiveLock_into_marking(active_lock) ==
    LET m1 == ValueMap_insert(ValueMap_new, "lockscope",
                              LockScope_into(active_lock.lock_scope))
        m2 == ValueMap_insert(m1, "locktype", LockType_into(active_lock.lock_type))
        m3 == ValueMap_insert(m2, "depth", Depth_into(active_lock.depth))
        m4 == IF IsSome(active_lock.owner)
              THEN ValueMap_insert(m3, "owner", Owner_into(active_lock.owner[1]))
              ELSE ValueMap_insert(m3, "owner", Empty)
        m5 == IF IsSome(active_lock.lock_token)
              THEN ValueMap_insert(m4, "locktoken",
                                   LockToken_into(active_lock.lock_token[1]))
              ELSE ValueMap_insert(m4, "locktoken", Empty)
        m6 == ValueMap_insert(m5, "lockroot", LockRoot_into(active_lock.lock_root))
    IN  Map(m6)

\* From<ActiveLock> for Value
ActiveLock_into(active_lock) ==
    LET m1 == ValueMap_insert(ValueMap_new, "lockscope",
                              LockScope_into(active_lock.lock_scope))
        m2 == ValueMap_insert(m1, "locktype", LockType_into(active_lock.lock_type))
        m3 == ValueMap_insert(m2, "depth", Depth_into(active_lock.depth))
        m4 == IF IsSome(active_lock.owner)
              THEN ValueMap_insert(m3, "owner", Owner_into(active_lock.owner[1]))
              ELSE m3
        m5 == IF IsSome(active_lock.lock_token)
              THEN ValueMap_insert(m4, "locktoken",
                                   LockToken_into(active_lock.lock_token[1]))
              ELSE m4
        m6 == ValueMap_insert(m5, "lockroot", LockRoot_into(active_lock.lock_root))
    IN  Map(m6)

\* ----------------------------------------------------------- propertyupdate

SetOf(properties) == [properties |-> properties]
RemoveOf(properties) == [properties |-> properties]
PropertyUpdate(set, remove) == [set |-> set, remove |-> remove]

\* Set::try_from(&Value)
Set_try_from(value) ==
    LET map == Value_to_map(value)
    IN  IF IsErr(map) THEN map
        ELSE LET prop_value == get_Properties(map.val)
             IN  IF prop_value = None THEN Err(MissingElement("prop"))
                 ELSE IF IsErr(prop_value[1]) THEN prop_value[1]
                 ELSE Ok(SetOf(prop_value[1].val))

\* map.get::<Set>()
get_Set(map) ==
    IF ValueMap_contains(map, "set")
    THEN Some(Set_try_from(ValueMap_value(map, "set")))
    ELSE None

\* From<Set> for Value
Set_into(set) ==
    Map(ValueMap_insert(ValueMap_new, "prop", Properties_into(set.properties)))

\* Remove::try_from(&Value)
Remove_try_from(value) ==
    LET map == Value_to_map(value)
    IN  IF IsErr(map) THEN map
        ELSE LET prop_value == get_Properties(map.val)
             IN  IF prop_value = None THEN Err(MissingElement("prop"))
                 ELSE IF IsErr(prop_value[1]) THEN prop_value[1]
                 ELSE Ok(RemoveOf(prop_value[1].val))

\* map.get::<Remove>()
get_Remove(map) ==
    IF ValueMap_contains(map, "remove")
    THEN Some(Remove_try_from(ValueMap_value(map, "remove")))
    ELSE None

\* From<Remove> for Value
Remove_into(remove) ==
    Map(ValueMap_insert(ValueMap_new, "prop", Properties_into(remove.properties)))

\* PropertyUpdate::try_from(&Value)
PropertyUpdate_try_from(value) ==
    LET map == Value_to_map(value)
    IN  IF IsErr(map) THEN map
        ELSE LET set == get_Set(map.val)
                 remove == get_Remove(map.val)
             IN  IF IsSome(set) /\ IsErr(set[1]) THEN set[1]
                 ELSE IF IsSome(remove) /\ IsErr(remove[1]) THEN remove[1]
                 ELSE Ok(PropertyUpdate(
                        IF set = None THEN None ELSE Some(set[1].val),
                        IF remove = None THEN None ELSE Some(remove[1].val)))

\* From<PropertyUpdate> for Value
PropertyUpdate_into(property_update) ==
    LET m1 == IF IsSome(property_update.set)
              THEN ValueMap_insert(ValueMap_new, "set",
                                   Set_into(property_update.set[1]))
              ELSE ValueMap_new
        m2 == IF IsSome(property_update.remove)
              THEN ValueMap_insert(m1, "remove", Remove_into(property_update.remove[1]))
              ELSE m1
    IN  Map(m2)

\* ----------------------------------------------------------------- propfind

Include(names) == [names |-> names]

\* Include::try_from(&Value): todo!()
Include_try_from(value) == Panic

\* map.get::<Include>()
get_Include(map) ==
    IF ValueMap_contains(map, "include")
    THEN Some(Include_try_from(ValueMap_value(map, "include")))
    ELSE None

\* From<Include> for Value: todo!()
Include_into(include) == Panic

Propfind_Propname == [variant |-> "Propname"]
Propfind_Allprop(include) == [variant |-> "Allprop", include |-> include]
Propfind_Prop(props) == [variant |-> "Prop", props |-> props]

PROPFIND_CONFLICT == <<"propname", "allprop", "include">>

\* Propfind::try_from(&Value)
Propfind_try_from(value) ==
    LET map == Value_to_map(value)
    IN  IF IsErr(map) THEN map
        ELSE
        LET propname == get_Propname(map.val)
            allprop == get_Allprop(map.val)
            prop == get_Properties(map.val)
        IN  CASE IsSome(propname) /\ allprop = None /\ prop = None ->
                   Ok(Propfind_Propname)
              [] propname = None /\ IsSome(allprop) /\ prop = None ->
                   LET include == get_Include(map.val)
                   IN  IF include = None THEN Ok(Propfind_Allprop(None))
                       ELSE IF IsPanic(include[1]) THEN Panic
                       ELSE IF IsErr(include[1]) THEN include[1]
                       ELSE Ok(Propfind_Allprop(Some(include[1].val)))
              [] propname = None /\ allprop = None /\ IsSome(prop) ->
                   IF IsErr(prop[1]) THEN prop[1] ELSE Ok(Propfind_Prop(prop[1].val))
              [] OTHER -> Err(ConflictingElements(PROPFIND_CONFLICT))

\* From<Propfind> for Value; Panic when a conversion it calls panics.
Propfind_into(propfind) ==
    CASE propfind.variant = "Propname" ->
           Map(ValueMap_insert(ValueMap_new, "propname", Propname_into(Propname)))
      [] propfind.variant = "Allprop" ->
           LET m1 == ValueMap_insert(ValueMap_new, "allprop", Allprop_into(Allprop))
           IN  IF IsSome(propfind.include)
               THEN LET inc == Include_into(propfind.include[1])
                    IN  IF IsPanic(inc) THEN Panic
                        ELSE Map(ValueMap_insert(m1, "include", inc))
               ELSE Map(m1)
      [] propfind.variant = "Prop" ->
           Map(ValueMap_insert(ValueMap_new, "prop", Properties_into(propfind.props)))

\* ------------------------------------------------------- the Element trait
\* The element types by name, for the operations that are generic in the
\* element type (E: Element + Into<Value>, P: TryFrom<&Value>).

\* Element::LOCAL_NAME
LOCAL_NAME(T) ==
    CASE T = "Depth" -> "depth"
      [] T = "Timeout" -> "timeout"
      [] T = "Exclusive" -> "exclusive"
      [] T = "Shared" -> "shared"
      [] T = "Write" -> "write"
      [] T = "Propname" -> "propname"
      [] T = "Allprop" -> "allprop"
      [] T = "LockScope" -> "lockscope"
      [] T = "LockType" -> "locktype"
      [] T = "Href" -> "href"
      [] T = "LockRoot" -> "lockroot"
      [] T = "LockToken" -> "locktoken"
      [] T = "Owner" -> "owner"
      [] T = "LockEntry" -> "lockentry"
      [] T = "LockInfo" -> "lockinfo"
      [] T = "ActiveLock" -> "activelock"
      [] T = "Set" -> "set"
      [] T = "Remove" -> "remove"
      [] T = "PropertyUpdate" -> "propertyupdate"
      [] T = "Propfind" -> "propfind"

\* Element::PREFIX, were the prefix of the protocol's examples declared.
PREFIX_upper(T) == "D"

\* Element::PREFIX: every element type declares DAV_PREFIX.
PREFIX(T) == DAV_PREFIX

\* <T as TryFrom<&Value>>::try_from
try_from(T, value) ==
    CASE T = "Depth" -> Depth_try_from(value)
      [] T = "Timeout" -> Timeout_try_from(value)
      [] T = "Exclusive" -> Exclusive_try_from(value)
      [] T = "Shared" -> Shared_try_from(value)
      [] T = "Write" -> Write_try_from(value)
      [] T = "Propname" -> Propname_try_from(value)
      [] T = "Allprop" -> Allprop_try_from(value)
      [] T = "LockScope" -> LockScope_try_from(value)
      [] T = "LockType" -> LockType_try_from(value)
      [] T = "Href" -> Href_try_from(value)
      [] T = "LockRoot" -> LockRoot_try_from(value)
      [] T = "LockToken" -> LockToken_try_from(value)
      [] T = "Owner" -> Owner_try_from(value)
      [] T = "LockEntry" -> LockEntry_try_from(value)
      [] T = "LockInfo" -> LockInfo_try_from(value)
      [] T = "ActiveLock" -> ActiveLock_try_from(value)
      [] T = "Set" -> Set_try_from(value)
      [] T = "Remove" -> Remove_try_from(value)
      [] T = "PropertyUpdate" -> PropertyUpdate_try_from(value)
      [] T = "Propfind" -> Propfind_try_from(value)

\* <T as Into<Value>>::into
into(T, v) ==
    CASE T = "Depth" -> Depth_into(v)
      [] T = "Timeout" -> Timeout_into(v)
      [] T = "Exclusive" -> Exclusive_into(v)
      [] T = "Shared" -> Shared_into(v)
      [] T = "Write" -> Write_into(v)
      [] T = "Propname" -> Propname_into(v)
      [] T = "Allprop" -> Allprop_into(v)
      [] T = "LockScope" -> LockScope_into(v)
      [] T = "LockType" -> LockType_into(v)
      [] T = "Href" -> Href_into(v)
      [] T = "LockRoot" -> LockRoot_into(v)
      [] T = "LockToken" -> LockToken_into(v)
      [] T = "Owner" -> Owner_into(v)
      [] T = "LockEntry" -> LockEntry_into(v)
      [] T = "LockInfo" -> LockInfo_into(v)
      [] T = "ActiveLock" -> ActiveLock_into(v)
      [] T = "Set" -> Set_into(v)
      [] T = "Remove" -> Remove_into(v)
      [] T = "PropertyUpdate" -> PropertyUpdate_into(v)
      [] T = "Propfind" -> Propfind_into(v)

\* -------------------------------------------------------- the owner builder

\* Owner::new()
Owner_new == Owner(ValueMap_new)

\* Owner::with::<E>(e), were the new entry put before the entries of self.
Owner_with_prepending(owner, E, e) ==
    Owner(<<Entry(LOCAL_NAME(E), into(E, e))>> \o owner.map)

\* Owner::with::<E>(e): self.0.insert::<E>(e.into())
Owner_with(owner, E, e) == Owner(ValueMap_insert(owner.map, LOCAL_NAME(E), into(E, e)))

\* Owner::with_name::<E>(), were the entry pushed without a lookup of the name.
Owner_with_name_appending(owner, E) ==
    Owner(Append(owner.map, Entry(LOCAL_NAME(E), Empty)))

\* Owner::with_name::<E>(): self.0.insert::<E>(Value::Empty)
Owner_with_name(owner, E) == Owner(ValueMap_insert(owner.map, LOCAL_NAME(E), Empty))

\* Owner::names(): the keys of the map, in its order
Owner_names(owner) == Keys(owner.map)

\* ValueMap::get_optional::<P>(): None without the key, Some(None) when the
\* stored value is Empty, Some(Some(P::try_from(value))) otherwise.
ValueMap_get_optional(map, P) ==
    IF ~ValueMap_contains(map, LOCAL_NAME(P)) THEN None
    ELSE LET value == ValueMap_value(map, LOCAL_NAME(P))
         IN  IF value = Empty THEN Some(None)
             ELSE Some(Some(try_from(P, value)))

\* Owner::get::<P>(), as if it were self.0.get(): an Empty value is handed to
\* P::try_from like any other.
Owner_get_flat(owner, P) ==
    IF ~ValueMap_contains(owner.map, LOCAL_NAME(P)) THEN None
    ELSE Some(Some(try_from(P, ValueMap_value(owner.map, LOCAL_NAME(P)))))

\* Owner::get::<P>(): self.0.get_optional()
Owner_get(owner, P) == ValueMap_get_optional(owner.map, P)

\* ------------------------------------------------------------ the XML codec
\* A document on the wire is the sequence of its markup tokens: the XML
\* declaration, start tags, end tags, self-closed tags and character data.
\* The indentation between tags carries no content and is left out.

XmlDecl == [tok |-> "decl", version |-> <<"1", ".", "0">>, encoding |-> "utf-8"]
StartTag(prefix, local, xmlns) ==
    [tok |-> "start", prefix |-> prefix, local |-> local, xmlns |-> xmlns]
EndTag(prefix, local) == [tok |-> "end", prefix |-> prefix, local |-> local]
EmptyTag(prefix, local, xmlns) ==
    [tok |-> "empty", prefix |-> prefix, local |-> local, xmlns |-> xmlns]
Chars(text) == [tok |-> "text", text |-> text]

\* The attribute xmlns:prefix="namespace".
Xmlns(prefix, namespace) == [prefix |-> prefix, namespace |-> namespace]

\* The element local under a prefix, with its content: an Empty value and a map
\* without entries are self-closed, a List repeats the tag once per item, and
\* the entries of a Map follow in the map's order.
RECURSIVE WriteElement(_, _, _, _)
RECURSIVE WriteEntries(_, _)
RECURSIVE WriteItems(_, _, _)
WriteElement(prefix, local, value, xmlns) ==
    CASE value.tag = "empty" -> <<EmptyTag(prefix, local, xmlns)>>
      [] value.tag = "text" ->
            <<StartTag(prefix, local, xmlns), Chars(value.text), EndTag(prefix, local)>>
      [] value.tag = "map" ->
            IF value.map = <<>>
            THEN <<EmptyTag(prefix, local, xmlns)>>
            ELSE <<StartTag(prefix, local, xmlns)>>
                 \o WriteEntries(prefix, value.map)
                 \o <<EndTag(prefix, local)>>
      [] value.tag = "list" -> WriteItems(prefix, local, value.list)

WriteEntries(prefix, map) ==
    IF map = <<>> THEN <<>>
    ELSE WriteElement(prefix, Head(map).key.local_name, Head(map).val, <<>>)
         \o WriteEntries(prefix, Tail(map))

WriteItems(prefix, local, list) ==
    IF list = <<>> THEN <<>>
    ELSE WriteElement(prefix, local, Head(list), <<>>)
         \o WriteItems(prefix, local, Tail(list))

\* The serialize operation: the declaration, then the root element, which
\* binds the prefix to the DAV: namespace.
Serialize(prefix, local, value) ==
    <<XmlDecl>>
    \o WriteElement(prefix, local, value, <<Xmlns(prefix, DAV_NAMESPACE)>>)

\* The namespace a prefix is bound to; no namespace when it is not bound.
Resolve(xmlns, prefix) ==
    IF \E i \in 1..Len(xmlns) : xmlns[i].prefix = prefix
    THEN xmlns[CHOOSE i \in 1..Len(xmlns) : xmlns[i].prefix = prefix].namespace
    ELSE ""

\* A parsed child joins the map: a tag that repeats becomes a List.
Collect(map, key, value) ==
    IF \E i \in 1..Len(map) : map[i].key = key
    THEN LET i == CHOOSE j \in 1..Len(map) : map[j].key = key
             old == map[i].val
         IN  [map EXCEPT ![i].val =
                  IF old.tag = "list" THEN List(Append(old.list, value))
                  ELSE List(<<old, value>>)]
    ELSE Append(map, [key |-> key, val |-> value])

\* The element that starts at token i, its tag resolved to (namespace,
\* local name), and the index of the token after it.
RECURSIVE ParseElement(_, _, _)
RECURSIVE ParseChildren(_, _, _, _)
ParseElement(tokens, i, xmlns) ==
    LET key == [namespace |-> Resolve(xmlns, tokens[i].prefix),
                local_name |-> tokens[i].local]
    IN  IF tokens[i].tok = "empty"
        THEN [key |-> key, val |-> Empty, next |-> i + 1]
        ELSE IF tokens[i + 1].tok = "end"
        THEN [key |-> key, val |-> Empty, next |-> i + 2]
        ELSE IF tokens[i + 1].tok = "text"
        THEN [key |-> key, val |-> Text(tokens[i + 1].text), next |-> i + 3]
        ELSE LET children == ParseChildren(tokens, i + 1, xmlns, <<>>)
             IN  [key |-> key, val |-> Map(children.map), next |-> children.next + 1]

ParseChildren(tokens, i, xmlns, map) ==
    IF tokens[i].tok = "end" THEN [map |-> map, next |-> i]
    ELSE LET child == ParseElement(tokens, i, xmlns)
         IN  ParseChildren(tokens, child.next, xmlns, Collect(map, child.key, child.val))

UnexpectedRoot(expected, found) ==
    [kind |-> "UnexpectedRoot", expected |-> expected, found |-> found]

\* The parse operation: the content of the root element, or an error of its
\* own when the root tag is not the expected Qualified Name.
Parse(tokens, expected) ==
    LET i == IF tokens[1].tok = "decl" THEN 2 ELSE 1
        root == ParseElement(tokens, i, tokens[i].xmlns)
    IN  IF root.key = expected THEN Ok(root.val)
        ELSE Err(UnexpectedRoot(expected, root.key))

\* FromXml::from_xml for the element type T: parse, then T::try_from.
from_xml(T, tokens) ==
    LET value == Parse(tokens, ElementName(LOCAL_NAME(T)))
    IN  IF IsErr(value) THEN value ELSE try_from(T, value.val)

\* IntoXml::into_xml for the element type T: v.into(), then serialize under
\* T's name and prefix.
into_xml(T, v) ==
    LET value == into(T, v)
    IN  IF IsPanic(value) THEN Panic
        ELSE Ok(Serialize(PREFIX(T), LOCAL_NAME(T), value))

\* ------------------------------------------------------------------- inputs

\* All sequences over S of length at most n.
SeqsUpTo(S, n) == UNION {[1..k -> S] : k \in 0..n}

Reverse(s) == [i \in 1..Len(s) |-> s[Len(s) + 1 - i]]

TXT_uri1 == <<"/", "a">>
TXT_uri2 == <<"h", ":", "b">>
TXT_name == <<"N">>

\* Depth texts: a literal or a near miss, with whitespace on either side.
DepthCores ==
    {TXT_0, TXT_1, TXT_infinity, <<"2">>, <<"0", "0">>, <<"1", "0">>, <<>>,
     <<"I">> \o Tail(TXT_infinity), <<"i", "n", "f">>}
Pads == SeqsUpTo(WhiteSpace, MaxPad)
DepthTexts == {l \o c \o r : l \in Pads, c \in DepthCores, r \in Pads}

\* Timeout texts: a prefix followed by a short suffix, and some long ones.
SuffixAlphabet == {"0", "6", "9", "+", "-", "a", " "}
TimeoutPrefixes == {TXT_SecondDash, <<"s">> \o Tail(TXT_SecondDash), <<>>}
TimeoutLong ==
    {TXT_Infinite, <<"i">> \o Tail(TXT_Infinite), TXT_Infinite \o <<" ">>,
     TXT_SecondDash \o <<"6", "0", "0">>,
     TXT_SecondDash \o <<"a", "b", "c">>,
     TXT_SecondDash \o <<"0", "0", "7">>,
     TXT_SecondDash \o <<"+", "6", "0", "0">>,
     TXT_SecondDash \o <<"6", "5", "5", "3", "6">>,
     TXT_SecondDash \o <<"4", "2", "9", "4", "9", "6", "7", "2", "9", "5">>,
     TXT_SecondDash \o <<"4", "2", "9", "4", "9", "6", "7", "2", "9", "6">>,
     TXT_SecondDash \o <<"9", "9", "9", "9", "9", "9", "9", "9", "9", "9">>,
     TXT_SecondDash \o <<"0", "4", "2", "9", "4", "9", "6", "7", "2", "9", "5">>}
TimeoutTexts ==
    TimeoutLong \cup
    {p \o x : p \in TimeoutPrefixes, x \in SeqsUpTo(SuffixAlphabet, MaxSuffixLen)}

\* Values that are not of the expected variant.
NonText == {Empty, Map(<<>>), List(<<>>), List(<<Text(TXT_0)>>)}
NonMap == {Empty, Text(<<>>), Text(TXT_uri1), List(<<>>), List(<<Map(<<>>)>>)}

\* The maps that hold, for each field in order, no entry or one of its values;
\* fields is a sequence of [key, vals].
RECURSIVE ChildMaps(_)
ChildMaps(fields) ==
    IF fields = <<>> THEN {<<>>}
    ELSE LET rest == ChildMaps(Tail(fields))
             f == Head(fields)
         IN  rest \cup {<<Entry(f.key, v)>> \o m : v \in f.vals, m \in rest}

\* Each map in the order of its fields and in the reverse order.
BothOrders(maps) == {Map(m) : m \in maps} \cup {Map(Reverse(m)) : m \in maps}

Field(key, vals) == [key |-> key, vals |-> vals]

MarkerVals == {Empty, Text(TXT_name), Map(<<>>), List(<<>>)}

\* Maps of at most MaxProps properties, as an owner or prop element holds them.
PropKeys == {"href", "displayname", "getetag"}
PropVals == {Empty, Text(TXT_uri1)}
PropMaps ==
    {m \in SeqsUpTo({Entry(k, v) : k \in PropKeys, v \in PropVals}, MaxProps) :
        \A i, j \in 1..Len(m) : i # j => m[i].key # m[j].key}

LockScopeDocs ==
    BothOrders(ChildMaps(<<Field("exclusive", MarkerVals), Field("shared", MarkerVals)>>))
    \cup NonMap
LockTypeDocs ==
    BothOrders(ChildMaps(<<Field("write", MarkerVals), Field("exclusive", {Empty})>>))
    \cup NonMap
HrefVals == {Text(TXT_uri1), Text(TXT_uri2), Text(<<>>), Empty, Map(<<>>)}
HrefHolderDocs ==
    BothOrders(ChildMaps(<<Field("href", HrefVals), Field("owner", {Empty})>>))
    \cup NonMap
OwnerDocs == {Map(m) : m \in PropMaps} \cup NonMap

LockScopeVals ==
    {Map(<<Entry("exclusive", Empty)>>), Map(<<Entry("shared", Empty)>>),
     Map(<<Entry("exclusive", Empty), Entry("shared", Empty)>>), Map(<<>>), Empty}
LockTypeVals == {Map(<<Entry("write", Empty)>>), Map(<<>>), Text(TXT_name)}
DepthVals == {Text(TXT_0), Text(TXT_infinity), Text(<<"2">>), Empty}
OwnerVals == {Map(<<>>), Map(<<Entry("href", Text(TXT_uri1))>>), Empty}
HrefHolderVals ==
    {Map(<<Entry("href", Text(TXT_uri1))>>), Map(<<>>),
     Map(<<Entry("href", Empty)>>)}

LockEntryDocs ==
    BothOrders(ChildMaps(<<Field("lockscope", LockScopeVals),
                           Field("locktype", LockTypeVals)>>))
    \cup NonMap
LockInfoDocs ==
    BothOrders(ChildMaps(<<Field("lockscope", LockScopeVals),
                           Field("locktype", LockTypeVals),
                           Field("owner", OwnerVals)>>))
    \cup NonMap
\* The children of the activelock documents: one well-formed value and the
\* malformed ones that fail in different ways.
ActiveLockDocs ==
    BothOrders(ChildMaps(<<
        Field("lockscope", {Map(<<Entry("exclusive", Empty)>>),
                            Map(<<Entry("exclusive", Empty), Entry("shared", Empty)>>),
                            Empty}),
        Field("locktype", {Map(<<Entry("write", Empty)>>), Map(<<>>)}),
        Field("depth", {Text(TXT_0), Text(TXT_infinity), Text(<<"2">>)}),
        Field("owner", {Map(<<Entry("href", Text(TXT_uri1))>>), Empty}),
        Field("locktoken", {Map(<<Entry("href", Text(TXT_uri1))>>), Map(<<>>)}),
        Field("lockroot", HrefHolderVals)>>))
    \cup NonMap

PropVals2 == {Map(<<>>), Map(<<Entry("displayname", Text(TXT_name))>>), Empty,
              Text(TXT_name)}
SetDocs ==
    BothOrders(ChildMaps(<<Field("prop", PropVals2), Field("href", {Empty})>>))
    \cup NonMap
SetVals == {Map(<<Entry("prop", v)>>) : v \in PropVals2} \cup {Map(<<>>), Empty}
PropertyUpdateDocs ==
    BothOrders(ChildMaps(<<Field("set", SetVals), Field("remove", SetVals)>>))
    \cup NonMap
PropfindDocs ==
    BothOrders(ChildMaps(<<Field("propname", MarkerVals),
                           Field("allprop", MarkerVals),
                           Field("prop", PropVals2),
                           Field("include", {Empty, Map(<<>>)})>>))
    \cup NonMap

\* Typed values.
Depths == {Depth_Zero, Depth_One, Depth_Infinity}
SecondsSample == {0, 1, 9, 10, 600, 1200, 65535, 65536, 99999}
Timeouts ==
    {Timeout_Infinite, Timeout_Seconds(U32_MAX)} \cup
    {Timeout_Seconds(U32_of(n)) : n \in SecondsSample}
LockScopes == {LockScope_Exclusive, LockScope_Shared}
LockTypes == {LockType_Write(Write)}
Hrefs == {Href(TXT_uri1), Href(TXT_uri2)}
LockRoots == {LockRoot(h) : h \in Hrefs}
LockTokens == {LockToken(h) : h \in Hrefs}
Owners == {Owner(m) : m \in PropMaps}
PropertiesSet == {Properties(m) : m \in PropMaps}
Options(S) == {None} \cup {Some(x) : x \in S}
LockEntries == {LockEntry(s, t) : s \in LockScopes, t \in LockTypes}
LockInfos == {LockInfo(s, t, o) : s \in LockScopes, t \in LockTypes, o \in Options(Owners)}
ActiveLocks ==
    {ActiveLock(s, t, d, o, k, r) :
        s \in LockScopes, t \in LockTypes, d \in Depths, o \in Options(Owners),
        k \in Options(LockTokens), r \in LockRoots}
Sets == {SetOf(p) : p \in PropertiesSet}
Removes == {RemoveOf(p) : p \in PropertiesSet}
PropertyUpdates == {PropertyUpdate(s, r) : s \in Options(Sets), r \in Options(Removes)}
Includes == {Include(<<>>), Include(<<TXT_name>>)}
Propfinds ==
    {Propfind_Propname} \cup {Propfind_Allprop(i) : i \in Options(Includes)}
    \cup {Propfind_Prop(p) : p \in PropertiesSet}

\* The documents handed to a marker element's extraction: every variant.
MarkerDocs ==
    MarkerVals \cup {Text(<<>>), Map(<<Entry("href", Text(TXT_uri1))>>), List(<<Empty>>)}

Markers == {"Exclusive", "Shared", "Write", "Propname", "Allprop"}

Types ==
    {"Depth", "Timeout", "LockScope", "LockType", "LockRoot", "LockToken", "Owner",
     "LockEntry", "LockInfo", "ActiveLock", "Set", "Remove", "PropertyUpdate",
     "Propfind"} \cup Markers

TypedValues(T) ==
    CASE T = "Depth" -> Depths
      [] T = "Timeout" -> Timeouts
      [] T = "LockScope" -> LockScopes
      [] T = "LockType" -> LockTypes
      [] T = "LockRoot" -> LockRoots
      [] T = "LockToken" -> LockTokens
      [] T = "Owner" -> Owners
      [] T = "LockEntry" -> LockEntries
      [] T = "LockInfo" -> LockInfos
      [] T = "ActiveLock" -> ActiveLocks
      [] T = "Set" -> Sets
      [] T = "Remove" -> Removes
      [] T = "PropertyUpdate" -> PropertyUpdates
      [] T = "Propfind" -> Propfinds
      [] T = "Exclusive" -> {Exclusive}
      [] T = "Shared" -> {Shared}
      [] T = "Write" -> {Write}
      [] T = "Propname" -> {Propname}
      [] T = "Allprop" -> {Allprop}

\* An entry under a key that no schema type reads as its child.
ForeignEntry == Entry("getetag", Text(TXT_name))

\* The documents, and each Map among them with the foreign entry before or
\* after its entries.
WithForeign(docs) ==
    docs \cup {Map(<<ForeignEntry>> \o d.map) : d \in {x \in docs : x.tag = "map"}}
         \cup {Map(d.map \o <<ForeignEntry>>) : d \in {x \in docs : x.tag = "map"}}

Documents(T) ==
    CASE T = "Depth" -> {Text(t) : t \in DepthTexts} \cup NonText
      [] T = "Timeout" -> {Text(t) : t \in TimeoutTexts} \cup NonText
      [] T = "LockScope" -> LockScopeDocs
      [] T = "LockType" -> LockTypeDocs
      [] T = "LockRoot" -> HrefHolderDocs
      [] T = "LockToken" -> HrefHolderDocs
      [] T = "Owner" -> OwnerDocs
      [] T = "LockEntry" -> LockEntryDocs
      [] T = "LockInfo" -> LockInfoDocs
      [] T = "ActiveLock" -> ActiveLockDocs
      [] T = "Set" -> SetDocs
      [] T = "Remove" -> SetDocs
      [] T = "PropertyUpdate" -> PropertyUpdateDocs
      [] T = "Propfind" -> PropfindDocs
      [] T = "Exclusive" -> MarkerDocs
      [] T = "Shared" -> MarkerDocs
      [] T = "Write" -> MarkerDocs
      [] T = "Propname" -> MarkerDocs
      [] T = "Allprop" -> MarkerDocs

\* The documents of the types that read their children by name, with an entry
\* that none of them reads.
ForeignDocuments(T) ==
    IF T \in {"ActiveLock", "LockEntry", "LockInfo", "LockRoot", "LockToken",
              "LockScope", "LockType", "PropertyUpdate", "Propfind"}
    THEN WithForeign(Documents(T))
    ELSE {}

\* -------------------------------------------------------------------- state

VARIABLES
    pc,      \* "insert": typed is to be inserted; "extract": doc is to be
             \* extracted; "done": the call has returned or panicked
    ty,      \* the schema type of the conversion
    typed,   \* Some(v) when the run starts from the typed value v, else None
    doc,     \* the Document Value (Panic when the insertion panicked)
    result,  \* the extraction's result
    owner,   \* the Owner under construction
    history, \* the inserts made into the owner's map so far: [key, val]
    fetched, \* what the last Owner::get returned, and for which element type
    input,   \* the XML document handed to from_xml
    output,  \* what into_xml returned
    th       \* the threads that convert concurrently

convVars == <<pc, ty, typed, doc, result>>
mapVars == <<owner, history, fetched>>
xmlVars == <<input, output>>
vars == <<pc, ty, typed, doc, result, owner, history, fetched, input, output, th>>

NoDoc == [tag |-> "none"]
NoResult == [tag |-> "none"]
NoOwner == [tag |-> "none"]
NoXml == [tag |-> "none"]

\* The parts of the state a specification does not use stay as they are here.
ConvIdle == pc = "idle" /\ ty = "none" /\ typed = None /\ doc = NoDoc /\ result = NoResult
MapIdle == owner = NoOwner /\ history = <<>> /\ fetched = NoResult
XmlIdle == input = NoXml /\ output = NoXml
ThreadsIdle == th = <<>>

Init ==
    /\ MapIdle /\ XmlIdle /\ ThreadsIdle
    /\ ty \in Types
    /\ result = NoResult
    /\ \/ /\ pc = "insert"
          /\ typed \in {Some(v) : v \in TypedValues(ty)}
          /\ doc = NoDoc
       \/ /\ pc = "extract"
          /\ typed = None
          /\ doc \in Documents(ty) \cup ForeignDocuments(ty)

\* One action per conversion.  T_Insert is value.into() for a typed value of T:
\* the value becomes the document, or the call panics and the run is over.
\* T_Extract is T::try_from(&doc).

Depth_Insert ==
    /\ pc = "insert"
    /\ ty = "Depth"
    /\ doc' = Depth_into(typed[1])
    /\ pc' = IF IsPanic(doc') THEN "done" ELSE "extract"
    /\ UNCHANGED <<ty, typed, result, mapVars, xmlVars, th>>

Depth_Extract ==
    /\ pc = "extract"
    /\ ty = "Depth"
    /\ result' = Depth_try_from(doc)
    /\ pc' = "done"
    /\ UNCHANGED <<ty, typed, doc, mapVars, xmlVars, th>>

Timeout_Insert ==
    /\ pc = "insert"
    /\ ty = "Timeout"
    /\ doc' = Timeout_into(typed[1])
    /\ pc' = IF IsPanic(doc') THEN "done" ELSE "extract"
    /\ UNCHANGED <<ty, typed, result, mapVars, xmlVars, th>>

Timeout_Extract ==
    /\ pc = "extract"
    /\ ty = "Timeout"
    /\ result' = Timeout_try_from(doc)
    /\ pc' = "done"
    /\ UNCHANGED <<ty, typed, doc, mapVars, xmlVars, th>>

LockScope_Insert ==
    /\ pc = "insert"
    /\ ty = "LockScope"
    /\ doc' = LockScope_into(typed[1])
    /\ pc' = IF IsPanic(doc') THEN "done" ELSE "extract"
    /\ UNCHANGED <<ty, typed, result, mapVars, xmlVars, th>>

LockScope_Extract ==
    /\ pc = "extract"
    /\ ty = "LockScope"
    /\ result' = LockScope_try_from(doc)
    /\ pc' = "done"
    /\ UNCHANGED <<ty, typed, doc, mapVars, xmlVars, th>>

LockType_Insert ==
    /\ pc = "insert"
    /\ ty = "LockType"
    /\ doc' = LockType_into(typed[1])
    /\ pc' = IF IsPanic(doc') THEN "done" ELSE "extract"
    /\ UNCHANGED <<ty, typed, result, mapVars, xmlVars, th>>

LockType_Extract ==
    /\ pc = "extract"
    /\ ty = "LockType"
    /\ result' = LockType_try_from(doc)
    /\ pc' = "done"
    /\ UNCHANGED <<ty, typed, doc, mapVars, xmlVars, th>>

LockRoot_Insert ==
    /\ pc = "insert"
    /\ ty = "LockRoot"
    /\ doc' = LockRoot_into(typed[1])
    /\ pc' = IF IsPanic(doc') THEN "done" ELSE "extract"
    /\ UNCHANGED <<ty, typed, result, mapVars, xmlVars, th>>

LockRoot_Extract ==
    /\ pc = "extract"
    /\ ty = "LockRoot"
    /\ result' = LockRoot_try_from(doc)
    /\ pc' = "done"
    /\ UNCHANGED <<ty, typed, doc, mapVars, xmlVars, th>>

LockToken_Insert ==
    /\ pc = "insert"
    /\ ty = "LockToken"
    /\ doc' = LockToken_into(typed[1])
    /\ pc' = IF IsPanic(doc') THEN "done" ELSE "extract"
    /\ UNCHANGED <<ty, typed, result, mapVars, xmlVars, th>>

LockToken_Extract ==
    /\ pc = "extract"
    /\ ty = "LockToken"
    /\ result' = LockToken_try_from(doc)
    /\ pc' = "done"
    /\ UNCHANGED <<ty, typed, doc, mapVars, xmlVars, th>>

Owner_Insert ==
    /\ pc = "insert"
    /\ ty = "Owner"
    /\ doc' = Owner_into(typed[1])
    /\ pc' = IF IsPanic(doc') THEN "done" ELSE "extract"
    /\ UNCHANGED <<ty, typed, result, mapVars, xmlVars, th>>

Owner_Extract ==
    /\ pc = "extract"
    /\ ty = "Owner"
    /\ result' = Owner_try_from(doc)
    /\ pc' = "done"
    /\ UNCHANGED <<ty, typed, doc, mapVars, xmlVars, th>>

LockEntry_Insert ==
    /\ pc = "insert"
    /\ ty = "LockEntry"
    /\ doc' = LockEntry_into(typed[1])
    /\ pc' = IF IsPanic(doc') THEN "done" ELSE "extract"
    /\ UNCHANGED <<ty, typed, result, mapVars, xmlVars, th>>

LockEntry_Extract ==
    /\ pc = "extract"
    /\ ty = "LockEntry"
    /\ result' = LockEntry_try_from(doc)
    /\ pc' = "done"
    /\ UNCHANGED <<ty, typed, doc, mapVars, xmlVars, th>>

LockInfo_Insert ==
    /\ pc = "insert"
    /\ ty = "LockInfo"
    /\ doc' = LockInfo_into(typed[1])
    /\ pc' = IF IsPanic(doc') THEN "done" ELSE "extract"
    /\ UNCHANGED <<ty, typed, result, mapVars, xmlVars, th>>

LockInfo_Extract ==
    /\ pc = "extract"
    /\ ty = "LockInfo"
    /\ result' = LockInfo_try_from(doc)
    /\ pc' = "done"
    /\ UNCHANGED <<ty, typed, doc, mapVars, xmlVars, th>>

ActiveLock_Insert ==
    /\ pc = "insert"
    /\ ty = "ActiveLock"
    /\ doc' = ActiveLock_into(typed[1])
    /\ pc' = IF IsPanic(doc') THEN "done" ELSE "extract"
    /\ UNCHANGED <<ty, typed, result, mapVars, xmlVars, th>>

ActiveLock_Extract ==
    /\ pc = "extract"
    /\ ty = "ActiveLock"
    /\ result' = ActiveLock_try_from(doc)
    /\ pc' = "done"
    /\ UNCHANGED <<ty, typed, doc, mapVars, xmlVars, th>>

Set_Insert ==
    /\ pc = "insert"
    /\ ty = "Set"
    /\ doc' = Set_into(typed[1])
    /\ pc' = IF IsPanic(doc') THEN "done" ELSE "extract"
    /\ UNCHANGED <<ty, typed, result, mapVars, xmlVars, th>>

Set_Extract ==
    /\ pc = "extract"
    /\ ty = "Set"
    /\ result' = Set_try_from(doc)
    /\ pc' = "done"
    /\ UNCHANGED <<ty, typed, doc, mapVars, xmlVars, th>>

Remove_Insert ==
    /\ pc = "insert"
    /\ ty = "Remove"
    /\ doc' = Remove_into(typed[1])
    /\ pc' = IF IsPanic(doc') THEN "done" ELSE "extract"
    /\ UNCHANGED <<ty, typed, result, mapVars, xmlVars, th>>

Remove_Extract ==
    /\ pc = "extract"
    /\ ty = "Remove"
    /\ result' = Remove_try_from(doc)
    /\ pc' = "done"
    /\ UNCHANGED <<ty, typed, doc, mapVars, xmlVars, th>>

PropertyUpdate_Insert ==
    /\ pc = "insert"
    /\ ty = "PropertyUpdate"
    /\ doc' = PropertyUpdate_into(typed[1])
    /\ pc' = IF IsPanic(doc') THEN "done" ELSE "extract"
    /\ UNCHANGED <<ty, typed, result, mapVars, xmlVars, th>>

PropertyUpdate_Extract ==
    /\ pc = "extract"
    /\ ty = "PropertyUpdate"
    /\ result' = PropertyUpdate_try_from(doc)
    /\ pc' = "done"
    /\ UNCHANGED <<ty, typed, doc, mapVars, xmlVars, th>>

Propfind_Insert ==
    /\ pc = "insert"
    /\ ty = "Propfind"
    /\ doc' = Propfind_into(typed[1])
    /\ pc' = IF IsPanic(doc') THEN "done" ELSE "extract"
    /\ UNCHANGED <<ty, typed, result, mapVars, xmlVars, th>>

Propfind_Extract ==
    /\ pc = "extract"
    /\ ty = "Propfind"
    /\ result' = Propfind_try_from(doc)
    /\ pc' = "done"
    /\ UNCHANGED <<ty, typed, doc, mapVars, xmlVars, th>>

Exclusive_Insert ==
    /\ pc = "insert"
    /\ ty = "Exclusive"
    /\ doc' = Exclusive_into(typed[1])
    /\ pc' = IF IsPanic(doc') THEN "done" ELSE "extract"
    /\ UNCHANGED <<ty, typed, result, mapVars, xmlVars, th>>

Exclusive_Extract ==
    /\ pc = "extract"
    /\ ty = "Exclusive"
    /\ result' = Exclusive_try_from(doc)
    /\ pc' = "done"
    /\ UNCHANGED <<ty, typed, doc, mapVars, xmlVars, th>>

Shared_Insert ==
    /\ pc = "insert"
    /\ ty = "Shared"
    /\ doc' = Shared_into(typed[1])
    /\ pc' = IF IsPanic(doc') THEN "done" ELSE "extract"
    /\ UNCHANGED <<ty, typed, result, mapVars, xmlVars, th>>

Shared_Extract ==
    /\ pc = "extract"
    /\ ty = "Shared"
    /\ result' = Shared_try_from(doc)
    /\ pc' = "done"
    /\ UNCHANGED <<ty, typed, doc, mapVars, xmlVars, th>>

Write_Insert ==
    /\ pc = "insert"
    /\ ty = "Write"
    /\ doc' = Write_into(typed[1])
    /\ pc' = IF IsPanic(doc') THEN "done" ELSE "extract"
    /\ UNCHANGED <<ty, typed, result, mapVars, xmlVars, th>>

Write_Extract ==
    /\ pc = "extract"
    /\ ty = "Write"
    /\ result' = Write_try_from(doc)
    /\ pc' = "done"
    /\ UNCHANGED <<ty, typed, doc, mapVars, xmlVars, th>>

Propname_Insert ==
    /\ pc = "insert"
    /\ ty = "Propname"
    /\ doc' = Propname_into(typed[1])
    /\ pc' = IF IsPanic(doc') THEN "done" ELSE "extract"
    /\ UNCHANGED <<ty, typed, result, mapVars, xmlVars, th>>

Propname_Extract ==
    /\ pc = "extract"
    /\ ty = "Propname"
    /\ result' = Propname_try_from(doc)
    /\ pc' = "done"
    /\ UNCHANGED <<ty, typed, doc, mapVars, xmlVars, th>>

Allprop_Insert ==
    /\ pc = "insert"
    /\ ty = "Allprop"
    /\ doc' = Allprop_into(typed[1])
    /\ pc' = IF IsPanic(doc') THEN "done" ELSE "extract"
    /\ UNCHANGED <<ty, typed, result, mapVars, xmlVars, th>>

Allprop_Extract ==
    /\ pc = "extract"
    /\ ty = "Allprop"
    /\ result' = Allprop_try_from(doc)
    /\ pc' = "done"
    /\ UNCHANGED <<ty, typed, doc, mapVars, xmlVars, th>>

Next ==
    \/ Depth_Insert \/ Depth_Extract
    \/ Timeout_Insert \/ Timeout_Extract
    \/ LockScope_Insert \/ LockScope_Extract
    \/ LockType_Insert \/ LockType_Extract
    \/ LockRoot_Insert \/ LockRoot_Extract
    \/ LockToken_Insert \/ LockToken_Extract
    \/ Owner_Insert \/ Owner_Extract
    \/ LockEntry_Insert \/ LockEntry_Extract
    \/ LockInfo_Insert \/ LockInfo_Extract
    \/ ActiveLock_Insert \/ ActiveLock_Extract
    \/ Set_Insert \/ Set_Extract
    \/ Remove_Insert \/ Remove_Extract
    \/ PropertyUpdate_Insert \/ PropertyUpdate_Extract
    \/ Propfind_Insert \/ Propfind_Extract
    \/ Exclusive_Insert \/ Exclusive_Extract
    \/ Shared_Insert \/ Shared_Extract
    \/ Write_Insert \/ Write_Extract
    \/ Propname_Insert \/ Propname_Extract
    \/ Allprop_Insert \/ Allprop_Extract

Spec == Init /\ [][Next]_vars

\* ------------------------------------------------------- the owner builder
\* An Owner is built from Owner::new() by a sequence of calls of with,
\* with_name and of insert on its public map, and read with get.

\* Most inserts made into one owner.
MaxInserts == 3

BuilderElements == {"Href", "Depth", "LockScope"}

\* The typed values handed to Owner::with::<E>.
BuilderValues(E) ==
    CASE E = "Href" -> {Href(TXT_uri1)}
      [] E = "Depth" -> {Depth_Zero, Depth_Infinity}
      [] E = "LockScope" -> {LockScope_Exclusive}

\* Values stored under E's name that E::try_from rejects.
RawValues(E) ==
    CASE E = "Href" -> {Map(<<>>)}
      [] E = "Depth" -> {Text(<<"2">>)}
      [] E = "LockScope" -> {Text(TXT_name)}

Inserted_call(name, value) == [key |-> name, val |-> value]

InitMap ==
    /\ ConvIdle /\ XmlIdle /\ ThreadsIdle
    /\ owner = Owner_new
    /\ history = <<>>
    /\ fetched = NoResult

\* owner = owner.with(e)
Owner_With ==
    /\ owner # NoOwner
    /\ Len(history) < MaxInserts
    /\ \E E \in BuilderElements : \E e \in BuilderValues(E) :
          /\ owner' = Owner_with(owner, E, e)
          /\ history' = Append(history, Inserted_call(LOCAL_NAME(E), into(E, e)))
    /\ fetched' = NoResult
    /\ UNCHANGED <<convVars, xmlVars, th>>

\* owner = owner.with_name::<E>()
Owner_WithName ==
    /\ owner # NoOwner
    /\ Len(history) < MaxInserts
    /\ \E E \in BuilderElements :
          /\ owner' = Owner_with_name(owner, E)
          /\ history' = Append(history, Inserted_call(LOCAL_NAME(E), Empty))
    /\ fetched' = NoResult
    /\ UNCHANGED <<convVars, xmlVars, th>>

\* owner.0.insert::<E>(value)
ValueMap_Insert ==
    /\ owner # NoOwner
    /\ Len(history) < MaxInserts
    /\ \E E \in BuilderElements : \E value \in RawValues(E) :
          /\ owner' = Owner(ValueMap_insert(owner.map, LOCAL_NAME(E), value))
          /\ history' = Append(history, Inserted_call(LOCAL_NAME(E), value))
    /\ fetched' = NoResult
    /\ UNCHANGED <<convVars, xmlVars, th>>

\* owner.get::<P>(); the owner is borrowed, not changed.
Owner_Get ==
    /\ owner # NoOwner
    /\ \E P \in BuilderElements :
          fetched' = [P |-> P, value |-> Owner_get(owner, P)]
    /\ UNCHANGED <<owner, history, convVars, xmlVars, th>>

NextMap == Owner_With \/ Owner_WithName \/ ValueMap_Insert \/ Owner_Get

SpecMap == InitMap /\ [][NextMap]_vars

\* ----------------------------------------------------- documents on the wire
\* T::from_xml(bytes) followed by into_xml() of the value it returned, and
\* v.into_xml() followed by T::from_xml of the bytes it returned.

\* The prefixes an input document binds to the DAV: namespace.
XmlPrefixes == {"D", "x", DAV_PREFIX}

\* The content of the input documents of type T.
WireDocs(T) == {d \in Documents(T) : d.tag # "list"}

\* Input documents of type T: the root is T's element under some prefix, or
\* the element of another type.
XmlInputs(T) ==
    {Serialize(p, LOCAL_NAME(T), d) : p \in XmlPrefixes, d \in WireDocs(T)}
    \cup {Serialize(p, IF T = "Depth" THEN "timeout" ELSE "depth", Text(TXT_1)) :
             p \in XmlPrefixes}

InitXml ==
    /\ MapIdle /\ ThreadsIdle
    /\ ty \in Types
    /\ doc = NoDoc
    /\ result = NoResult
    /\ output = NoXml
    /\ \/ /\ pc = "from_xml"
          /\ typed = None
          /\ input \in XmlInputs(ty)
       \/ /\ pc = "into_xml"
          /\ typed \in {Some(v) : v \in TypedValues(ty)}
          /\ input = NoXml

\* T::from_xml(bytes), on the input document or on the bytes into_xml returned.
FromXml ==
    /\ pc = "from_xml"
    /\ result' = from_xml(ty, IF typed = None THEN input ELSE output.val)
    /\ pc' = IF typed = None /\ IsOk(result') THEN "into_xml" ELSE "done"
    /\ UNCHANGED <<ty, typed, doc, input, output, mapVars, th>>

\* v.into_xml(), on the given value or on the value from_xml returned.
IntoXml ==
    /\ pc = "into_xml"
    /\ output' = into_xml(ty, IF typed = None THEN result.val ELSE typed[1])
    /\ pc' = IF typed # None /\ IsOk(output') THEN "from_xml" ELSE "done"
    /\ UNCHANGED <<ty, typed, doc, input, result, mapVars, th>>

NextXml == FromXml \/ IntoXml

SpecXml == InitXml /\ [][NextXml]_vars

\* ------------------------------------------------------- concurrent callers
\* Threads that each call one conversion on a value of their own.  A call of
\* LockInfo::try_from is taken one statement at a time; its temporaries live
\* in the frame of the call.  The steps of the threads interleave freely.

\* The number of threads.
NumThreads == 2
Threads == 1..NumThreads

\* The match of LockInfo::try_from on the three children that were looked up.
LockInfo_match(lock_scope, lock_type, owner_opt) ==
    IF IsSome(lock_scope) /\ IsSome(lock_type)
       /\ IsOk(lock_scope[1]) /\ IsOk(lock_type[1])
    THEN IF owner_opt = None
         THEN Ok(LockInfo(lock_scope[1].val, lock_type[1].val, None))
         ELSE IF IsErr(owner_opt[1]) THEN owner_opt[1]
         ELSE Ok(LockInfo(lock_scope[1].val, lock_type[1].val, Some(owner_opt[1].val)))
    ELSE IF IsSome(lock_scope) /\ IsErr(lock_scope[1]) THEN lock_scope[1]
    ELSE IF IsSome(lock_type) /\ IsErr(lock_type[1]) THEN lock_type[1]
    ELSE IF lock_scope = None THEN Err(MissingElement("lockscope"))
    ELSE Err(MissingElement("locktype"))

NoLocals ==
    [map |-> NoDoc, lock_scope |-> NoResult, lock_type |-> NoResult,
     owner_opt |-> NoResult]

\* A call that has not started: arg is the caller's value, given is what it
\* was when the call was made.
Call(op, arg) ==
    [op |-> op, given |-> arg, arg |-> arg, pc |-> "call", local |-> NoLocals,
     ret |-> NoResult]

\* A temporary, were it a static that every call shares.
StoreLocal_static(threads, t, name, v) ==
    [u \in DOMAIN threads |-> [threads[u] EXCEPT !.local[name] = v]]

\* A temporary of thread t's call is bound.
StoreLocal(threads, t, name, v) == [threads EXCEPT ![t].local[name] = v]

Goto(threads, t, label) == [threads EXCEPT ![t].pc = label]

Return(threads, t, r) == [threads EXCEPT ![t].ret = r, ![t].pc = "done"]

ThreadLockInfoDocs ==
    {Map(<<Entry("lockscope", Map(<<Entry("exclusive", Empty)>>)),
           Entry("locktype", Map(<<Entry("write", Empty)>>)),
           Entry("owner", Map(<<Entry("href", Text(TXT_uri1))>>))>>),
     Map(<<Entry("lockscope", Map(<<Entry("shared", Empty)>>)),
           Entry("locktype", Map(<<Entry("write", Empty)>>))>>),
     Map(<<Entry("locktype", Map(<<>>))>>),
     Map(<<Entry("lockscope", Empty),
           Entry("owner", Text(TXT_name))>>),
     Map(<<Entry("lockscope", Map(<<Entry("exclusive", Empty)>>)),
           Entry("locktype", Map(<<Entry("write", Empty)>>)),
           Entry("owner", Text(TXT_name))>>),
     Empty}

ThreadCalls ==
    {Call("LockInfo_try_from", d) : d \in ThreadLockInfoDocs}
    \cup {Call("Owner_try_from", d) :
             d \in {Map(<<Entry("href", Text(TXT_uri1))>>), Text(TXT_name)}}
    \cup {Call("Owner_into", o) :
             o \in {Owner_new, Owner(<<Entry("href", Text(TXT_uri2))>>)}}

InitThreads ==
    /\ ConvIdle /\ MapIdle /\ XmlIdle
    /\ th \in [Threads -> ThreadCalls]

\* let map = value.to_map()?;
Thread_to_map ==
    /\ \E t \in DOMAIN th :
          /\ th[t].op = "LockInfo_try_from" /\ th[t].pc = "call"
          /\ LET map == Value_to_map(th[t].arg)
             IN  th' = IF IsErr(map) THEN Return(th, t, map)
                       ELSE Goto(StoreLocal(th, t, "map", map.val), t, "lockscope")
    /\ UNCHANGED <<convVars, mapVars, xmlVars>>

\* map.get::<LockScope>()
Thread_get_LockScope ==
    /\ \E t \in DOMAIN th :
          /\ th[t].op = "LockInfo_try_from" /\ th[t].pc = "lockscope"
          /\ th' = Goto(StoreLocal(th, t, "lock_scope", get_LockScope(th[t].local.map)),
                        t, "locktype")
    /\ UNCHANGED <<convVars, mapVars, xmlVars>>

\* map.get::<LockType>()
Thread_get_LockType ==
    /\ \E t \in DOMAIN th :
          /\ th[t].op = "LockInfo_try_from" /\ th[t].pc = "locktype"
          /\ th' = Goto(StoreLocal(th, t, "lock_type", get_LockType(th[t].local.map)),
                        t, "owner")
    /\ UNCHANGED <<convVars, mapVars, xmlVars>>

\* map.get::<Owner>()
Thread_get_Owner ==
    /\ \E t \in DOMAIN th :
          /\ th[t].op = "LockInfo_try_from" /\ th[t].pc = "owner"
          /\ th' = Goto(StoreLocal(th, t, "owner_opt", get_Owner(th[t].local.map)),
                        t, "match")
    /\ UNCHANGED <<convVars, mapVars, xmlVars>>

\* match (lock_scope, lock_type, owner_opt) { ... }
Thread_match ==
    /\ \E t \in DOMAIN th :
          /\ th[t].op = "LockInfo_try_from" /\ th[t].pc = "match"
          /\ th' = Return(th, t, LockInfo_match(th[t].local.lock_scope,
                                                th[t].local.lock_type,
                                                th[t].local.owner_opt))
    /\ UNCHANGED <<convVars, mapVars, xmlVars>>

\* Owner::try_from(&value)
Thread_Owner_try_from ==
    /\ \E t \in DOMAIN th :
          /\ th[t].op = "Owner_try_from" /\ th[t].pc = "call"
          /\ th' = Return(th, t, Owner_try_from(th[t].arg))
    /\ UNCHANGED <<convVars, mapVars, xmlVars>>

\* Value::from(owner)
Thread_Owner_into ==
    /\ \E t \in DOMAIN th :
          /\ th[t].op = "Owner_into" /\ th[t].pc = "call"
          /\ th' = Return(th, t, Owner_into(th[t].arg))
    /\ UNCHANGED <<convVars, mapVars, xmlVars>>

NextThreads ==
    \/ Thread_to_map \/ Thread_get_LockScope \/ Thread_get_LockType
    \/ Thread_get_Owner \/ Thread_match
    \/ Thread_Owner_try_from \/ Thread_Owner_into

SpecThreads == InitThreads /\ [][NextThreads]_vars

\* ------------------------------------------------------------------- claims

Extracted(T) == pc = "done" /\ ty = T /\ ~IsPanic(doc)
Inserted(T) == pc # "insert" /\ ty = T /\ typed # None
ErrKind(r) == IF IsErr(r) THEN r.err.kind ELSE "none"

\* C1 (as claimed): for every schema type and every value v, inserting v and
\* extracting from the produced Value returns Ok(v).
C1_RoundTrip ==
    (pc = "done" /\ typed # None) => result = Ok(typed[1])

\* C1, the part the code satisfies: the round trip returns Ok(v) for every value
\* but a Propfind::Allprop whose include is Some, whose insertion panics.
C1_RoundTripButInclude ==
    (pc = "done" /\ typed # None) =>
        IF ty = "Propfind" /\ typed[1].variant = "Allprop" /\ IsSome(typed[1].include)
        THEN IsPanic(doc)
        ELSE result = Ok(typed[1])

Present(name) == ValueMap_contains(doc.map, name)

\* C2 (as claimed): LockScope extraction from a Map holding both exclusive and
\* shared, or neither, yields the error kind ConflictingElements.
C2_LockScopeConflicting ==
    (Extracted("LockScope") /\ doc.tag = "map"
        /\ (Present("exclusive") <=> Present("shared")))
    => ErrKind(result) = "ConflictingElements"

PropfindAlternatives == {k \in {"propname", "allprop", "prop"} : Present(k)}

\* C3 (as claimed): Propfind extraction from a Map succeeds exactly when one of
\* propname, allprop, prop is present, with the matching variant; otherwise the
\* error kind is ConflictingElements.
C3_PropfindExactlyOne ==
    (pc = "done" /\ ty = "Propfind" /\ typed = None /\ doc.tag = "map") =>
        IF Cardinality(PropfindAlternatives) = 1
        THEN /\ IsOk(result)
             /\ Present("propname") => result.val = Propfind_Propname
             /\ Present("allprop") => result.val.variant = "Allprop"
             /\ Present("prop") =>
                    /\ result.val.variant = "Prop"
                    /\ Ok(result.val.props) =
                         Properties_try_from(ValueMap_value(doc.map, "prop"))
        ELSE ErrKind(result) = "ConflictingElements"

\* The child that was looked up is absent or extracts without error.
WellFormed(got) == got = None \/ IsOk(got[1])

\* Exactly one of the required children is absent, and the result names it.
NamesTheMissing(required) ==
    LET missing == {k \in required : ~Present(k)}
    IN  Cardinality(missing) = 1 => \A k \in missing : result = Err(MissingElement(k))

\* C4: extracting a record type from a Map in which exactly one required child
\* is absent and every present child is well-formed yields MissingElement
\* naming that child.
C4_MissingRequiredChild ==
    /\ (Extracted("ActiveLock") /\ doc.tag = "map"
          /\ WellFormed(get_LockScope(doc.map))
          /\ WellFormed(get_LockType(doc.map))
          /\ WellFormed(get_Depth(doc.map))
          /\ WellFormed(get_Owner(doc.map))
          /\ WellFormed(get_LockToken(doc.map))
          /\ WellFormed(get_LockRoot(doc.map)))
       => NamesTheMissing({"lockscope", "locktype", "depth", "lockroot"})
    /\ (Extracted("LockEntry") /\ doc.tag = "map"
          /\ WellFormed(get_LockScope(doc.map))
          /\ WellFormed(get_LockType(doc.map)))
       => NamesTheMissing({"lockscope", "locktype"})
    /\ (Extracted("LockInfo") /\ doc.tag = "map"
          /\ WellFormed(get_LockScope(doc.map))
          /\ WellFormed(get_LockType(doc.map))
          /\ WellFormed(get_Owner(doc.map)))
       => NamesTheMissing({"lockscope", "locktype"})
    /\ ((Extracted("LockRoot") \/ Extracted("LockToken")) /\ doc.tag = "map"
          /\ WellFormed(get_Href(doc.map)))
       => NamesTheMissing({"href"})
    /\ ((Extracted("Set") \/ Extracted("Remove")) /\ doc.tag = "map"
          /\ WellFormed(get_Properties(doc.map)))
       => NamesTheMissing({"prop"})
    /\ (Extracted("LockType") /\ doc.tag = "map")
       => NamesTheMissing({"write"})

\* C4's case: an activelock with every child well-formed and only depth absent.
C4_Witness ==
    /\ Extracted("ActiveLock") /\ doc.tag = "map"
    /\ Present("lockscope") /\ Present("locktype") /\ Present("lockroot")
    /\ Present("owner") /\ Present("locktoken") /\ ~Present("depth")
    /\ WellFormed(get_LockScope(doc.map))
    /\ WellFormed(get_LockType(doc.map))
    /\ WellFormed(get_Owner(doc.map))
    /\ WellFormed(get_LockToken(doc.map))
    /\ WellFormed(get_LockRoot(doc.map))
    /\ result = Err(MissingElement("depth"))

\* C5: Depth extraction from a Text returns Zero for "0", One for "1", Infinity
\* for "infinity" and the error kind Other for every other text.
C5_DepthLiterals ==
    (Extracted("Depth") /\ doc.tag = "text") =>
        /\ doc.text = <<"0">> => result = Ok(Depth_Zero)
        /\ doc.text = <<"1">> => result = Ok(Depth_One)
        /\ doc.text = <<"i", "n", "f", "i", "n", "i", "t", "y">>
              => result = Ok(Depth_Infinity)
        /\ doc.text \notin {<<"0">>, <<"1">>, <<"i", "n", "f", "i", "n", "i", "t", "y">>}
              => ErrKind(result) = "Other"
        /\ ErrKind(result) \notin {"MissingElement", "ConflictingElements"}

\* C5's case: the capitalised literal is refused with Other.
C5_Witness ==
    /\ Extracted("Depth")
    /\ doc = Text(<<"I", "n", "f", "i", "n", "i", "t", "y">>)
    /\ ErrKind(result) = "Other"

DepthLiterals == {TXT_0, TXT_1, TXT_infinity}

\* C6 (as claimed): a valid depth literal surrounded by whitespace extracts to
\* the variant of the literal without the whitespace.
C6_DepthTrimmed ==
    (Extracted("Depth") /\ doc.tag = "text" /\ trim(doc.text) \in DepthLiterals) =>
        result = Depth_try_from(Text(trim(doc.text)))

\* C6 (amended): Depth extraction matches the text as it is, untrimmed: it
\* succeeds only on exactly "0", "1" or "infinity", and a valid literal with
\* leading or trailing whitespace yields the error kind Other.
C6_DepthExact ==
    (Extracted("Depth") /\ doc.tag = "text") =>
        /\ IsOk(result) <=> doc.text \in DepthLiterals
        /\ (trim(doc.text) \in DepthLiterals /\ doc.text # trim(doc.text))
              => ErrKind(result) = "Other"

\* C6's case: " 1" is refused.
C6_Witness ==
    /\ Extracted("Depth")
    /\ doc = Text(<<" ", "1">>)
    /\ ErrKind(result) = "Other"

\* The value of a string of at most nine decimal digits.
RECURSIVE DecimalValue(_)
DecimalValue(s) ==
    IF s = <<>> THEN 0
    ELSE 10 * DecimalValue(SubSeq(s, 1, Len(s) - 1)) + DigitVal(s[Len(s)])

AllDigits(s) == s # <<>> /\ \A i \in 1..Len(s) : IsDigit(s[i])
\* A number in writing: digits after an optional sign.
IsNumeral(s) ==
    AllDigits(s) \/ (s # <<>> /\ Head(s) \in {"+", "-"} /\ AllDigits(Tail(s)))
HasSecondPrefix(t) == Len(t) >= 7 /\ SubSeq(t, 1, 7) = <<"S", "e", "c", "o", "n", "d", "-">>
Suffix(t) == SubSeq(t, 8, Len(t))

\* C7: Timeout extraction from a Text returns Infinite for "Infinite",
\* Seconds(n) for "Second-" followed by the decimal digits of n, the error kind
\* Other when the suffix after "Second-" is not a number, and the error kind
\* Other for a text that is neither "Infinite" nor prefixed by "Second-".
C7_TimeoutLiterals ==
    (Extracted("Timeout") /\ doc.tag = "text") =>
        /\ doc.text = <<"I", "n", "f", "i", "n", "i", "t", "e">>
              => result = Ok(Timeout_Infinite)
        /\ (HasSecondPrefix(doc.text) /\ AllDigits(Suffix(doc.text))
               /\ Len(Suffix(doc.text)) <= 9)
              => result = Ok(Timeout_Seconds(U32_of(DecimalValue(Suffix(doc.text)))))
        /\ Suffix(doc.text) = <<"4", "2", "9", "4", "9", "6", "7", "2", "9", "5">>
              /\ HasSecondPrefix(doc.text)
              => result = Ok(Timeout_Seconds(U32_MAX))
        /\ (HasSecondPrefix(doc.text) /\ ~IsNumeral(Suffix(doc.text)))
              => ErrKind(result) = "Other"
        /\ (~HasSecondPrefix(doc.text)
               /\ doc.text # <<"I", "n", "f", "i", "n", "i", "t", "e">>)
              => ErrKind(result) = "Other"

\* C7's case: "Second-600" gives 600 seconds.
C7_Witness ==
    /\ Extracted("Timeout")
    /\ doc = Text(<<"S", "e", "c", "o", "n", "d", "-", "6", "0", "0">>)
    /\ result = Ok(Timeout_Seconds(U32(0, 600)))

\* C8 (as claimed): insertion is total: converting a typed value, a
\* Propfind::Allprop with include Some among them, returns a Value.
C8_InsertionTotal ==
    (pc # "insert" /\ typed # None) => doc.tag \in {"empty", "text", "map", "list"}

ErrorKinds == {"MissingElement", "ConflictingElements", "InvalidValueType", "Other"}

\* C9 (as claimed): every extraction returns Ok or Err with one of the four
\* error kinds, also for a propfind Map holding allprop and include.
C9_ExtractionReturns ==
    (pc = "done" /\ ~IsPanic(doc)) =>
        \/ IsOk(result)
        \/ IsErr(result) /\ ErrKind(result) \in ErrorKinds

OptKey(option, key) == IF IsSome(option) THEN <<key>> ELSE <<>>

\* C10: the Map inserted for an ActiveLock has the keys lockscope, locktype,
\* depth, owner iff owner is Some, locktoken iff lock_token is Some, lockroot,
\* in that order; LockInfo has lockscope, locktype, owner iff Some;
\* PropertyUpdate has set iff Some, then remove iff Some.
C10_KeySequence ==
    /\ Inserted("ActiveLock") =>
          /\ doc.tag = "map"
          /\ Keys(doc.map) =
               <<"lockscope", "locktype", "depth">>
               \o OptKey(typed[1].owner, "owner")
               \o OptKey(typed[1].lock_token, "locktoken")
               \o <<"lockroot">>
    /\ Inserted("LockInfo") =>
          /\ doc.tag = "map"
          /\ Keys(doc.map) =
               <<"lockscope", "locktype">> \o OptKey(typed[1].owner, "owner")
    /\ Inserted("PropertyUpdate") =>
          /\ doc.tag = "map"
          /\ Keys(doc.map) =
               OptKey(typed[1].set, "set") \o OptKey(typed[1].remove, "remove")

\* C10's case: a lock without owner and token is inserted as four entries.
C10_Witness ==
    /\ Inserted("ActiveLock")
    /\ typed[1].owner = None /\ typed[1].lock_token = None
    /\ Keys(doc.map) = <<"lockscope", "locktype", "depth", "lockroot">>

\* ----------------------------------------------- claims on the owner builder

\* The keys of the inserts made so far, in call order.
HistoryKeys == [i \in 1..Len(history) |-> history[i].key]

PairwiseDistinct(s) == \A i, j \in 1..Len(s) : s[i] = s[j] => i = j

RECURSIVE Concat(_)
Concat(seqs) == IF seqs = <<>> THEN <<>> ELSE Head(seqs) \o Concat(Tail(seqs))

\* The owner document whose children are the given calls' elements, in order.
OwnerDocumentOf(calls) ==
    <<XmlDecl, StartTag(DAV_PREFIX, "owner", <<Xmlns(DAV_PREFIX, DAV_NAMESPACE)>>)>>
    \o Concat([i \in 1..Len(calls) |->
                  WriteElement(DAV_PREFIX, calls[i].key, calls[i].val, <<>>)])
    \o <<EndTag(DAV_PREFIX, "owner")>>

\* The last insert made under a key.
LastInsert(key) ==
    history[CHOOSE i \in 1..Len(history) :
               /\ history[i].key = key
               /\ \A j \in (i + 1)..Len(history) : history[j].key # key]

\* C11: after inserts of pairwise distinct keys into a fresh map, the entries
\* are iterated and serialized in exactly the order of their insertion.
C11_InsertionOrder ==
    (owner # NoOwner /\ history # <<>> /\ PairwiseDistinct(HistoryKeys)) =>
        /\ Owner_names(owner) = HistoryKeys
        /\ \A i \in 1..Len(history) : owner.map[i].val = history[i].val
        /\ into_xml("Owner", owner) = Ok(OwnerDocumentOf(history))

C11_Witness ==
    /\ owner # NoOwner
    /\ Len(history) = 3
    /\ PairwiseDistinct(HistoryKeys)
    /\ HistoryKeys[1] = "lockscope" /\ HistoryKeys[3] = "depth"

C13_BothKept ==
    (owner # NoOwner /\ Len(history) >= 2
        /\ history[Len(history) - 1].key = history[Len(history)].key
        /\ history[Len(history) - 1].val # Empty
        /\ history[Len(history)].val = Empty
        /\ PairwiseDistinct(SubSeq(HistoryKeys, 1, Len(history) - 1)))
    => into_xml("Owner", owner) = Ok(OwnerDocumentOf(history))

\* C14: Owner::get::<P>() is None when P's name was never inserted, Some(None)
\* when the value under it is Empty, and otherwise Some(Some(r)) with r what
\* P::try_from returns on that value, Ok or Err; it is None for no present name.
C14_GetThreeWay ==
    (owner # NoOwner /\ fetched # NoResult) =>
        LET name == LOCAL_NAME(fetched.P)
            present == \E i \in 1..Len(history) : history[i].key = name
            value == LastInsert(name).val
        IN  /\ ~present => fetched.value = None
            /\ present => fetched.value # None
            /\ (present /\ value = Empty) => fetched.value = Some(None)
            /\ (present /\ value # Empty) =>
                  /\ fetched.value = Some(Some(try_from(fetched.P, value)))
                  /\ IsOk(fetched.value[1][1]) \/ IsErr(fetched.value[1][1])

\* All four outcomes have been seen on one owner: href is Empty, depth
\* extracts, lockscope does not.
C14_Witness ==
    /\ owner # NoOwner /\ fetched # NoResult
    /\ Len(history) = 3
    /\ Owner_get(owner, "Href") = Some(None)
    /\ Owner_get(owner, "Depth") = Some(Some(Ok(Depth_Infinity)))
    /\ fetched.P = "LockScope"
    /\ fetched.value = Some(Some(Err(InvalidValueType("map", "text"))))

\* ------------------------------------------------- claims on the wire format

\* The document with every tag, and the binding of the namespace, under p.
Reprefix(tokens, p) ==
    [i \in 1..Len(tokens) |->
        IF tokens[i].tok \in {"start", "empty"}
        THEN [tokens[i] EXCEPT !.prefix = p,
                 !.xmlns = [j \in 1..Len(tokens[i].xmlns) |->
                               [tokens[i].xmlns[j] EXCEPT !.prefix = p]]]
        ELSE IF tokens[i].tok = "end" THEN [tokens[i] EXCEPT !.prefix = p]
        ELSE tokens[i]]

Tags(tokens) == {i \in 1..Len(tokens) : tokens[i].tok \in {"start", "end", "empty"}}

\* C15: documents that differ only in the prefix bound to DAV: parse to the
\* same result, and what was parsed serializes to the same output, with the
\* prefix d, bound to DAV:, on every tag.
C15_Canonical ==
    (typed = None /\ input # NoXml /\ pc # "from_xml") =>
        /\ \A p \in XmlPrefixes : result = from_xml(ty, Reprefix(input, p))
        /\ (pc = "done" /\ output # NoXml) =>
              /\ IsOk(output)
              /\ \A p \in XmlPrefixes :
                    output = into_xml(ty, from_xml(ty, Reprefix(input, p)).val)
              /\ \A i \in Tags(output.val) : output.val[i].prefix = "d"
              /\ \A i \in Tags(output.val) :
                    output.val[i].tok # "end" =>
                        \A j \in 1..Len(output.val[i].xmlns) :
                            output.val[i].xmlns[j] = Xmlns("d", "DAV:")

\* An activelock given under the prefix x has been parsed and written again.
C15_Witness ==
    /\ typed = None /\ input # NoXml /\ pc = "done" /\ output # NoXml
    /\ ty = "ActiveLock"
    /\ input[2].prefix = "x"
    /\ IsOk(result) /\ IsSome(result.val.owner)
    /\ Len(output.val) > 10

\* C18 (as claimed): for every schema type and value v, from_xml of the bytes
\* that v.into_xml() returned is Ok(v).
C18_ByteRoundTrip ==
    (typed # None /\ pc = "done") => result = Ok(typed[1])

\* C16: a marker element converts to Empty, and its extraction succeeds on a
\* value of any variant; so LockScope extraction returns Exclusive whenever
\* exclusive is present and shared is not, whatever is stored under exclusive.
C16_Markers ==
    /\ (pc # "insert" /\ ty \in Markers /\ typed # None) => doc = Empty
    /\ (pc = "done" /\ ty \in Markers) =>
          result = Ok([unit |-> ty])
    /\ (Extracted("LockScope") /\ doc.tag = "map"
          /\ Present("exclusive") /\ ~Present("shared"))
       => result = Ok(LockScope_Exclusive)

C16_Witness ==
    /\ Extracted("LockScope") /\ typed = None /\ doc.tag = "map"
    /\ Present("exclusive") /\ ~Present("shared")
    /\ ValueMap_value(doc.map, "exclusive").tag = "list"
    /\ IsOk(result)

\* ------------------------------------------------ claims on concurrent calls

\* What the conversion returns when it is the only one running.
RunAlone(op, arg) ==
    CASE op = "LockInfo_try_from" -> LockInfo_try_from(arg)
      [] op = "Owner_try_from" -> Owner_try_from(arg)
      [] op = "Owner_into" -> Owner_into(arg)

\* C17: however the steps of the threads interleave, a call leaves the value
\* it was given as it was, and returns what it returns when run alone.
C17_Interleaving ==
    \A t \in DOMAIN th :
        /\ th[t].arg = th[t].given
        /\ th[t].pc = "done" => th[t].ret = RunAlone(th[t].op, th[t].given)

\* Thread 1 has returned Ok while thread 2 is inside its own extraction, with
\* a lockscope of its own that failed.
C17_Witness ==
    /\ th # <<>>
    /\ th[1].op = "LockInfo_try_from" /\ th[1].pc = "done" /\ IsOk(th[1].ret)
    /\ th[2].op = "LockInfo_try_from" /\ th[2].pc = "match"
    /\ th[2].local.lock_scope # None /\ IsErr(th[2].local.lock_scope[1])

\* ------------------------------------------------ claims on record extraction

\* A child of a record: its name, what map.get returned for it, whether the
\* record requires it, and the field of the record it fills.
Child(name, got_child, required, field) ==
    [name |-> name, got |-> got_child, required |-> required, field |-> field]

\* The children of a record type in the order of its fields.
ChildrenOf(T, map) ==
    CASE T = "ActiveLock" ->
            <<Child("lockscope", get_LockScope(map), TRUE, "lock_scope"),
              Child("locktype", get_LockType(map), TRUE, "lock_type"),
              Child("depth", get_Depth(map), TRUE, "depth"),
              Child("owner", get_Owner(map), FALSE, "owner"),
              Child("locktoken", get_LockToken(map), FALSE, "lock_token"),
              Child("lockroot", get_LockRoot(map), TRUE, "lock_root")>>
      [] T = "LockEntry" ->
            <<Child("lockscope", get_LockScope(map), TRUE, "lock_scope"),
              Child("locktype", get_LockType(map), TRUE, "lock_type")>>
      [] T = "LockInfo" ->
            <<Child("lockscope", get_LockScope(map), TRUE, "lock_scope"),
              Child("locktype", get_LockType(map), TRUE, "lock_type"),
              Child("owner", get_Owner(map), FALSE, "owner")>>
      [] T = "PropertyUpdate" ->
            <<Child("set", get_Set(map), FALSE, "set"),
              Child("remove", get_Remove(map), FALSE, "remove")>>
      [] T = "LockRoot" -> <<Child("href", get_Href(map), TRUE, "href")>>
      [] T = "LockToken" -> <<Child("href", get_Href(map), TRUE, "href")>>

\* The child is present and its extraction failed.
Broken(c) == c.got # None /\ IsErr(c.got[1])
\* The child is required and absent.
Missing(c) == c.got = None /\ c.required
FailureOf(c) == IF c.got = None THEN MissingElement(c.name) ELSE c.got[1].err

Smallest(S) == CHOOSE i \in S : \A j \in S : i <= j

\* C19 (as claimed): ActiveLock, LockEntry and LockInfo return the error of
\* the first field, in field order, that is required and absent or present and
\* failing, and Ok only when there is none; so an absent lockscope gives
\* MissingElement("lockscope") even when locktype is present and malformed.
C19_FieldOrder ==
    (pc = "done" /\ ty \in {"ActiveLock", "LockEntry", "LockInfo"} /\ doc.tag = "map") =>
        LET cs == ChildrenOf(ty, doc.map)
            failing == {i \in 1..Len(cs) : Broken(cs[i]) \/ Missing(cs[i])}
        IN  IF failing = {} THEN IsOk(result)
            ELSE result = Err(FailureOf(cs[Smallest(failing)]))

\* C20: a record never returns Ok over a child whose extraction failed, an
\* optional one included: an optional field is None only when its child is
\* absent.  The error a record returns is the error of one of its failing
\* children as the child returned it, or MissingElement of an absent required
\* one; when one child alone fails, it is that child's error.
C20_ErrorUnchanged ==
    (pc = "done" /\ doc.tag = "map"
        /\ ty \in {"ActiveLock", "LockEntry", "LockInfo", "PropertyUpdate",
                   "LockRoot", "LockToken"}) =>
        LET cs == ChildrenOf(ty, doc.map)
            broken == {i \in 1..Len(cs) : Broken(cs[i])}
            missing == {i \in 1..Len(cs) : Missing(cs[i])}
        IN  /\ broken # {} => IsErr(result)
            /\ IsOk(result) =>
                  \A i \in 1..Len(cs) :
                      result.val[cs[i].field] =
                          IF cs[i].required THEN cs[i].got[1].val
                          ELSE IF cs[i].got = None THEN None
                          ELSE Some(cs[i].got[1].val)
            /\ IsErr(result) =>
                  \E i \in broken \cup missing : result.err = FailureOf(cs[i])
            /\ (Cardinality(broken) = 1 /\ missing = {}) =>
                  \A i \in broken : result = cs[i].got[1]

\* An activelock whose owner is present and fails, every other child being
\* well-formed: the owner's error is the result.
C20_Witness ==
    /\ Extracted("ActiveLock") /\ typed = None /\ doc.tag = "map"
    /\ LET cs == ChildrenOf(ty, doc.map)
       IN  /\ {i \in 1..Len(cs) : Broken(cs[i])} = {4}
           /\ {i \in 1..Len(cs) : Missing(cs[i])} = {}
           /\ cs[5].got # None
           /\ result = cs[4].got[1]

\* ------------------------------------------------------ claims on the errors

\* C21 (as claimed): the names carried by the ConflictingElements error of a
\* Propfind extraction are the alternatives of propfind: propname, allprop
\* and prop.
C21_ConflictNames ==
    (Extracted("Propfind") /\ ErrKind(result) = "ConflictingElements") =>
        result.err.names = <<"propname", "allprop", "prop">>

RECURSIVE StripZeros(_)
StripZeros(s) ==
    IF Len(s) > 1 /\ Head(s) = "0" THEN StripZeros(Tail(s)) ELSE s

\* The digit string a is, read as a number, greater than the digit string b
\* of the same length.
RECURSIVE DigitsGreater(_, _)
DigitsGreater(a, b) ==
    IF a = <<>> THEN FALSE
    ELSE IF DigitVal(Head(a)) # DigitVal(Head(b))
    THEN DigitVal(Head(a)) > DigitVal(Head(b))
    ELSE DigitsGreater(Tail(a), Tail(b))

\* The digit string denotes a value above 4294967295.
ExceedsU32(s) ==
    LET n == StripZeros(s)
        max == <<"4", "2", "9", "4", "9", "6", "7", "2", "9", "5">>
    IN  Len(n) > Len(max) \/ (Len(n) = Len(max) /\ DigitsGreater(n, max))

\* C22 (as claimed): Timeout extraction yields Seconds(n) only for "Second-"
\* followed by the digits of n, 0 <= n <= 4294967295; a suffix that is empty,
\* carries a sign such as "+", holds a non-digit or exceeds 4294967295 yields
\* the error kind Other.
C22_TimeoutUnsigned ==
    (Extracted("Timeout") /\ doc.tag = "text") =>
        /\ (IsOk(result) /\ result.val.variant = "Seconds") =>
              /\ HasSecondPrefix(doc.text)
              /\ AllDigits(Suffix(doc.text))
              /\ ~ExceedsU32(Suffix(doc.text))
              /\ U32_to_string(result.val.seconds) = StripZeros(Suffix(doc.text))
        /\ (HasSecondPrefix(doc.text)
              /\ (~AllDigits(Suffix(doc.text)) \/ ExceedsU32(Suffix(doc.text))))
           => ErrKind(result) = "Other"

TextTypes == {"Depth", "Timeout"}
MapTypes ==
    {"ActiveLock", "LockEntry", "LockInfo", "LockRoot", "LockToken",
     "LockScope", "LockType", "Owner", "PropertyUpdate", "Set", "Remove",
     "Propfind"}

\* C23: extracting Depth or Timeout from a value that is not Text yields
\* InvalidValueType with expected "text" and got the name of the actual
\* variant; extracting a Map-shaped type from a value that is not a Map, Empty
\* included, yields InvalidValueType with expected "map" and got the name of
\* the actual variant.
C23_WrongShape ==
    /\ \A T \in TextTypes :
          (Extracted(T) /\ doc.tag # "text") =>
              result = Err(InvalidValueType("text", doc.tag))
    /\ \A T \in MapTypes :
          (Extracted(T) /\ doc.tag # "map") =>
              result = Err(InvalidValueType("map", doc.tag))

\* An Owner has been extracted from the Empty value and the error names the
\* expected and the actual variant.
C23_Witness ==
    /\ Extracted("Owner")
    /\ doc = Empty
    /\ result = Err(InvalidValueType("map", "empty"))

\* ------------------------------------------------- claims on the children read

SchemaTypes ==
    {"ActiveLock", "LockEntry", "LockInfo", "LockRoot", "LockToken",
     "LockScope", "LockType", "PropertyUpdate", "Propfind"}

\* allprop is the alternative a propfind map selects.
AllpropSelected(map) ==
    /\ ~ValueMap_contains(map, "propname")
    /\ ValueMap_contains(map, "allprop")
    /\ ~ValueMap_contains(map, "prop")

\* The child keys of T, for Propfind in the map given.
OwnKeys(T, map) ==
    CASE T = "ActiveLock" ->
           <<"lockscope", "locktype", "depth", "owner", "locktoken", "lockroot">>
      [] T = "LockEntry" -> <<"lockscope", "locktype">>
      [] T = "LockInfo" -> <<"lockscope", "locktype", "owner">>
      [] T = "LockRoot" -> <<"href">>
      [] T = "LockToken" -> <<"href">>
      [] T = "LockScope" -> <<"exclusive", "shared">>
      [] T = "LockType" -> <<"write">>
      [] T = "PropertyUpdate" -> <<"set", "remove">>
      [] T = "Propfind" ->
           IF AllpropSelected(map)
           THEN <<"propname", "allprop", "prop", "include">>
           ELSE <<"propname", "allprop", "prop">>

\* The entries of the map under the keys given, in the order of the keys: all
\* maps that agree on these keys have the same projection.
RECURSIVE Project(_, _)
Project(map, keys) ==
    IF keys = <<>> THEN <<>>
    ELSE (IF ValueMap_contains(map, Head(keys))
          THEN <<Entry(Head(keys), ValueMap_value(map, Head(keys)))>>
          ELSE <<>>)
         \o Project(map, Tail(keys))

HasForeignKey(T, map) ==
    \E i \in 1..Len(map) :
        \A k \in 1..Len(OwnKeys(T, map)) :
            map[i].key # ElementName(OwnKeys(T, map)[k])

\* C24: the extraction of ActiveLock, LockEntry, LockInfo, LockRoot, LockToken,
\* LockScope, LockType, PropertyUpdate and Propfind from a Map is the
\* extraction from the map's entries under the type's own child keys (for
\* Propfind: propname, allprop, prop, and include when allprop is selected), so
\* two maps that agree on these keys give the same result and an entry under
\* any other key changes nothing.
C24_OwnChildrenOnly ==
    \A T \in SchemaTypes :
        (Extracted(T) /\ doc.tag = "map") =>
            result = try_from(T, Map(Project(doc.map, OwnKeys(T, doc.map))))

\* A LockEntry has been extracted with success from a map that holds an entry
\* under a key the schema does not name.
C24_Witness ==
    /\ Extracted("LockEntry")
    /\ doc.tag = "map"
    /\ HasForeignKey("LockEntry", doc.map)
    /\ IsOk(result)

====
